---- MODULE Spec2Model ----
(***************************************************************************)
(* Model of gh-project-toolkit's field synchronisation:                    *)
(*   - the pure helpers of internal/tools/sync_fields (findCommonIssues,   *)
(*     fieldsEqual, ParseFieldMappings),                                   *)
(*   - Service.SyncFields as a step machine over the github.Client         *)
(*     interface, every client call being one step whose result the        *)
(*     client (the environment) chooses,                                   *)
(*   - GraphQLClient's cache, GetProjectFieldValues and UpdateProjectField.*)
(***************************************************************************)
EXTENDS Integers, Sequences, FiniteSets, TLC

\* ------------------------------------------------------------------------
\* Generic helpers
\* ------------------------------------------------------------------------

Range(s) == {s[k] : k \in 1..Len(s)}

SeqsUpTo(S, n) == UNION {[1..k -> S] : k \in 0..n}

\* Index of the first occurrence of x in s (0 when x does not occur).
FirstIndex(s, x) ==
    IF x \in Range(s) THEN CHOOSE k \in 1..Len(s) : s[k] = x /\ \A j \in 1..(k - 1) : s[j] # x
    ELSE 0

\* Number of positions of s that hold x.
Count(s, x) == Cardinality({k \in 1..Len(s) : s[k] = x})

\* sub is obtained from s by deleting elements (order kept).
RECURSIVE IsSubsequence(_, _)
IsSubsequence(sub, s) ==
    IF sub = <<>> THEN TRUE
    ELSE IF s = <<>> THEN FALSE
    ELSE IF Head(sub) = Head(s) THEN IsSubsequence(Tail(sub), Tail(s))
    ELSE IsSubsequence(sub, Tail(s))

\* ------------------------------------------------------------------------
\* findCommonIssues (mapping.go:170-184)
\* ------------------------------------------------------------------------

\* Issue URLs the inputs are drawn from.
IssueURLs == {"u1", "u2", "u3"}

\* Bounds on the membership lists handed to findCommonIssues.
MaxSourceIssues == 4
MaxTargetIssues == 2

\* A plausible slip: iterate over the target list and test membership in the
\* source list (result follows the target's order).
findCommonIssuesSwapped(sourceIssues, targetIssues) ==
    SelectSeq(targetIssues, LAMBDA issue : issue \in Range(sourceIssues))

\* issueMap is the set of target URLs; the source list is filtered by it in
\* source order.  Nothing removes a URL that occurs twice in the source list.
findCommonIssues(sourceIssues, targetIssues) ==
    LET issueMap == Range(targetIssues)
    IN  SelectSeq(sourceIssues, LAMBDA issue : issue \in issueMap)

VARIABLES fnArgs, fnResult

fnVars == <<fnArgs, fnResult>>

\* ------------------------------------------------------------------------
\* Strings are sequences of one-character strings, so that splitting and
\* trimming are computed and not assumed.
\* ------------------------------------------------------------------------

\* strings.Split(s, sep) for a one-character separator: n separators give
\* n + 1 parts, empty parts included.
RECURSIVE Split(_, _)
Split(s, sep) ==
    IF \A n \in 1..Len(s) : s[n] # sep THEN <<s>>
    ELSE LET n == CHOOSE c \in 1..Len(s) : s[c] = sep /\ \A b \in 1..(c - 1) : s[b] # sep
         IN  <<SubSeq(s, 1, n - 1)>> \o Split(SubSeq(s, n + 1, Len(s)), sep)

\* strings.Trim(s, cutset) for a one-character cutset.
RECURSIVE TrimLeft(_, _)
TrimLeft(s, c) == IF s # <<>> /\ Head(s) = c THEN TrimLeft(Tail(s), c) ELSE s

RECURSIVE TrimRight(_, _)
TrimRight(s, c) ==
    IF s # <<>> /\ s[Len(s)] = c THEN TrimRight(SubSeq(s, 1, Len(s) - 1), c) ELSE s

Trim(s, c) == TrimRight(TrimLeft(s, c), c)

\* A plausible slip: only leading white space is removed.
TrimSpaceLeft(s) == TrimLeft(s, " ")

\* strings.TrimSpace, for the one white-space character the inputs use.
TrimSpace(s) == Trim(s, " ")

\* ------------------------------------------------------------------------
\* ParseFieldMappings (mapping.go:13-26)
\* ------------------------------------------------------------------------

\* Field names as they appear in mappings and in fetched fields.
NameA == <<"a">>
NameB == <<"b">>
NameX == <<"x">>

\* Result: [ok, mappings]; on failure no mappings are returned (nil).
RECURSIVE ParseFieldMappings(_)
ParseFieldMappings(fms) ==
    IF fms = <<>> THEN [ok |-> TRUE, mappings |-> <<>>]
    ELSE LET parts == Split(Head(fms), "=")
         IN  IF Len(parts) # 2 THEN [ok |-> FALSE, mappings |-> <<>>]
             ELSE LET rest == ParseFieldMappings(Tail(fms))
                  IN  IF ~rest.ok THEN [ok |-> FALSE, mappings |-> <<>>]
                      ELSE [ok |-> TRUE,
                            mappings |-> <<[SourceField |-> TrimSpace(parts[1]),
                                            TargetField |-> TrimSpace(parts[2])]>>
                                         \o rest.mappings]

\* ------------------------------------------------------------------------
\* ParseProjectURL (unnamed/part_001:18-60)
\* ------------------------------------------------------------------------

\* A project URL after url.Parse: its host (a string) and its path (characters).
Digits == {"0", "1", "2", "3", "4", "5", "6", "7", "8", "9"}

DigitValue(c) ==
    CASE c = "0" -> 0 [] c = "1" -> 1 [] c = "2" -> 2 [] c = "3" -> 3 [] c = "4" -> 4
      [] c = "5" -> 5 [] c = "6" -> 6 [] c = "7" -> 7 [] c = "8" -> 8 [] c = "9" -> 9

RECURSIVE DecimalValue(_)
DecimalValue(s) ==
    IF s = <<>> THEN 0 ELSE 10 * DecimalValue(SubSeq(s, 1, Len(s) - 1)) + DigitValue(s[Len(s)])

\* A plausible slip: only the first digit is read.
AtoiFirstDigit(s) ==
    IF s = <<>> \/ s[1] \notin Digits THEN [ok |-> FALSE, n |-> 0]
    ELSE [ok |-> TRUE, n |-> DigitValue(s[1])]

\* strconv.Atoi: an optional sign followed by at least one decimal digit.
Atoi(s) ==
    LET signed == s # <<>> /\ Head(s) \in {"+", "-"}
        digits == IF signed THEN Tail(s) ELSE s
    IN  IF digits = <<>> \/ \E n \in 1..Len(digits) : digits[n] \notin Digits
        THEN [ok |-> FALSE, n |-> 0]
        ELSE [ok |-> TRUE,
              n |-> IF signed /\ Head(s) = "-" THEN 0 - DecimalValue(digits)
                    ELSE DecimalValue(digits)]

OrgsToken == <<"o", "r", "g", "s">>
UsersToken == <<"u", "s", "e", "r", "s">>
ProjectsToken == <<"p", "r", "o", "j", "e", "c", "t", "s">>

NoProjectInfo == [OwnerType |-> "", OwnerLogin |-> <<>>, ProjectNumber |-> 0]

\* A plausible slip: the owner type is checked before the number of segments.
ParseProjectURLOwnerFirst(u) ==
    LET parts == Split(Trim(u.Path, "/"), "/")
        num == Atoi(parts[4])
    IN  IF u.Host # "github.com"
        THEN [ok |-> FALSE, err |-> "not a GitHub URL", info |-> NoProjectInfo]
        ELSE IF parts[1] # OrgsToken /\ parts[1] # UsersToken
        THEN [ok |-> FALSE, err |-> "invalid owner type in URL", info |-> NoProjectInfo]
        ELSE IF Len(parts) # 4
        THEN [ok |-> FALSE, err |-> "invalid project URL format", info |-> NoProjectInfo]
        ELSE IF parts[3] # ProjectsToken
        THEN [ok |-> FALSE, err |-> "expected 'projects' as third component",
              info |-> NoProjectInfo]
        ELSE IF ~num.ok
        THEN [ok |-> FALSE, err |-> "invalid project number", info |-> NoProjectInfo]
        ELSE [ok |-> TRUE, err |-> "",
              info |-> [OwnerType |-> IF parts[1] = OrgsToken THEN "org" ELSE "user",
                        OwnerLogin |-> parts[2],
                        ProjectNumber |-> num.n]]

\* Result: [ok, err, info]; the checks are made in the order of the code.
ParseProjectURL(u) ==
    LET parts == Split(Trim(u.Path, "/"), "/")
        num == Atoi(parts[4])
    IN  IF u.Host # "github.com"
        THEN [ok |-> FALSE, err |-> "not a GitHub URL", info |-> NoProjectInfo]
        ELSE IF Len(parts) # 4
        THEN [ok |-> FALSE, err |-> "invalid project URL format", info |-> NoProjectInfo]
        ELSE IF parts[1] # OrgsToken /\ parts[1] # UsersToken
        THEN [ok |-> FALSE, err |-> "invalid owner type in URL", info |-> NoProjectInfo]
        ELSE IF parts[3] # ProjectsToken
        THEN [ok |-> FALSE, err |-> "expected 'projects' as third component",
              info |-> NoProjectInfo]
        ELSE IF ~num.ok
        THEN [ok |-> FALSE, err |-> "invalid project number", info |-> NoProjectInfo]
        ELSE [ok |-> TRUE, err |-> "",
              info |-> [OwnerType |-> IF parts[1] = OrgsToken THEN "org" ELSE "user",
                        OwnerLogin |-> parts[2],
                        ProjectNumber |-> num.n]]

\* ------------------------------------------------------------------------
\* Field values (github.ProjectFieldValue) and fieldsEqual (mapping.go:240-248)
\* ------------------------------------------------------------------------

\* A nil *time.Time / *string.
Nil == "nil"

Dates == {"2024-01-01", "2024-01-02"}
Texts == {"Todo"}

DateValue(d) == [Date |-> d, Text |-> Nil]
TextValue(t) == [Date |-> Nil, Text |-> t]
UnsetValue == [Date |-> Nil, Text |-> Nil]

ProjectField(id, name, value) == [ID |-> id, Name |-> name, Value |-> value]

NoField == ProjectField("", <<>>, UnsetValue)

\* A plausible slip: two unset values count as equal.
fieldsEqualUnsetEqual(a, b) ==
    IF a.Value.Date # Nil /\ b.Value.Date # Nil THEN a.Value.Date = b.Value.Date
    ELSE IF a.Value.Text # Nil /\ b.Value.Text # Nil THEN a.Value.Text = b.Value.Text
    ELSE a.Value = b.Value

fieldsEqual(a, b) ==
    IF a.Value.Date # Nil /\ b.Value.Date # Nil THEN a.Value.Date = b.Value.Date
    ELSE IF a.Value.Text # Nil /\ b.Value.Text # Nil THEN a.Value.Text = b.Value.Text
    ELSE FALSE

\* ------------------------------------------------------------------------
\* Service.SyncFields (mapping.go:54-237) over the github.Client interface
\* ------------------------------------------------------------------------

\* Bounds of the synchronisation runs.
MaxIssues == 2
MaxMappings == 2
MaxSourceFields == 2
MaxTargetFields == 1

\* processBatches' batchSize.
batchSize == 10

\* Issue URLs of the synchronisation runs.
SyncIssueURLs == {"u1", "u2"}

\* Raw --field-mapping strings: "a=x", " b = x" and the malformed "ax".
RawMappings == {<<"a", "=", "x">>, <<" ", "b", " ", "=", " ", "x">>, <<"a", "x">>}

\* Project URLs: an organisation project, a user project, and a foreign host.
OrgProjectURL ==
    [Host |-> "github.com",
     Path |-> <<"/">> \o OrgsToken \o <<"/", "m", "/">> \o ProjectsToken \o <<"/", "1">>]
UserProjectURL ==
    [Host |-> "github.com",
     Path |-> <<"/">> \o UsersToken \o <<"/", "m", "/">> \o ProjectsToken \o <<"/", "2">>]
ForeignURL ==
    [Host |-> "gitlab.com",
     Path |-> <<"/">> \o OrgsToken \o <<"/", "m", "/">> \o ProjectsToken \o <<"/", "1">>]

\* What the client may return from GetProjectFieldValues for the source and
\* for the target project: any list of fields within the bounds.
SourceFields ==
    {ProjectField(NameA, NameA, DateValue(d)) : d \in Dates}
        \cup {ProjectField(NameB, NameB, DateValue("2024-01-02"))}
TargetFields == {ProjectField(n, n, DateValue(d)) : n \in {NameX}, d \in Dates}
SourceFieldLists == SeqsUpTo(SourceFields, MaxSourceFields)
TargetFieldLists == SeqsUpTo(TargetFields, MaxTargetFields)

\* The membership lists the client may return.
MembershipLists == SeqsUpTo(SyncIssueURLs, MaxIssues)

\* The errors SyncFields returns (the prefix of the wrapped message).
NoError == ""
ErrSourceURL == "invalid source project URL"
ErrTargetURL == "invalid target project URL"
ErrMappings == "failed to parse field mappings"
ErrSourceID == "failed to get source project ID"
ErrTargetID == "failed to get target project ID"
ErrConfigs == "failed to get project field configs and issues"
ErrNoCommonIssues == "no common issues found between source and target projects"
ErrSourceValues == "failed to get source field values"
ErrTargetValues == "failed to get target field values"
ErrUpdate == "failed to update field"

VARIABLES
    dryRun,             \* Service.dryRun
    sourceProjectURL,   \* arguments of SyncFields
    targetProjectURL,
    issuesArg,
    fieldMappings,
    pc,                 \* position in SyncFields
    err,                \* the error SyncFields returns (NoError: nil)
    mappings,           \* locals of SyncFields / processBatches
    sourceProject,
    targetProject,
    sourceProjectID,
    targetProjectID,
    sourceIssues,
    targetIssues,
    issues,
    i,                  \* first position of the current batch (1-based)
    k,                  \* position of the current issue
    mi,                 \* position of the current mapping
    title,
    sourceValues,
    targetValues,
    targetFieldMap,
    calls               \* the client calls made so far, in order

argVars == <<dryRun, sourceProjectURL, targetProjectURL, issuesArg, fieldMappings>>
localVars == <<mappings, sourceProject, targetProject, sourceProjectID, targetProjectID,
               sourceIssues, targetIssues, issues, i, k, mi, title,
               sourceValues, targetValues, targetFieldMap>>
svcVars == <<argVars, pc, err, localVars, calls>>

\* One client call as the client sees it.
Call(op, project, issue, pos, m, field, dr, ok) ==
    [op |-> op, project |-> project, issue |-> issue, pos |-> pos, mi |-> m,
     field |-> field, dryRun |-> dr, ok |-> ok]

EmptyMap == <<>>

MapPut(m, key, v) == [x \in (DOMAIN m) \cup {key} |-> IF x = key THEN v ELSE m[x]]

Min(a, b) == IF a < b THEN a ELSE b

\* The client's project identities (service_test.go:15-20 resolves one
\* project number to "project_1" and every other to "project_2").
ProjectIDFor(info) == IF info.ProjectNumber = 1 THEN "project_1" ELSE "project_2"

\* SyncFields has returned: its locals are gone. The working set is kept, as
\* the record of which issues the run was about.
ClearLocals ==
    /\ mappings' = <<>>
    /\ sourceProject' = NoProjectInfo
    /\ targetProject' = NoProjectInfo
    /\ sourceProjectID' = ""
    /\ targetProjectID' = ""
    /\ sourceIssues' = <<>>
    /\ targetIssues' = <<>>
    /\ issues' = issues
    /\ i' = 0
    /\ k' = 0
    /\ mi' = 0
    /\ title' = ""
    /\ sourceValues' = EmptyMap
    /\ targetValues' = EmptyMap
    /\ targetFieldMap' = EmptyMap

Return(e) ==
    /\ pc' = "done"
    /\ err' = e
    /\ ClearLocals

\* parseInputs (mapping.go:90-107), called at mapping.go:56-59.
ParseInputs ==
    /\ pc = "parseInputs"
    /\ LET s == ParseProjectURL(sourceProjectURL)
           t == ParseProjectURL(targetProjectURL)
           m == ParseFieldMappings(fieldMappings)
       IN  IF ~s.ok THEN Return(ErrSourceURL)
           ELSE IF ~t.ok THEN Return(ErrTargetURL)
           ELSE IF ~m.ok THEN Return(ErrMappings)
           ELSE /\ pc' = "getSourceProjectID"
                /\ sourceProject' = s.info
                /\ targetProject' = t.info
                /\ mappings' = m.mappings
                /\ UNCHANGED <<err, sourceProjectID, targetProjectID, sourceIssues,
                               targetIssues, issues, i, k, mi, title, sourceValues,
                               targetValues, targetFieldMap>>
    /\ UNCHANGED <<argVars, calls>>

\* A plausible slip: the error of the first GetProjectID call is dropped.
GetSourceProjectIDUnchecked ==
    /\ pc = "getSourceProjectID"
    /\ \E ok \in BOOLEAN :
        /\ calls' = Append(calls, Call("GetProjectID", "", "", 0, 0, NoField, FALSE, ok))
        /\ pc' = "getTargetProjectID"
        /\ sourceProjectID' = IF ok THEN ProjectIDFor(sourceProject) ELSE ""
        /\ UNCHANGED <<err, mappings, sourceProject, targetProject,
                       targetProjectID, sourceIssues, targetIssues, issues,
                       i, k, mi, title, sourceValues, targetValues,
                       targetFieldMap>>
    /\ UNCHANGED argVars

\* getProjectIDs, first call (mapping.go:111-114).
GetSourceProjectID ==
    /\ pc = "getSourceProjectID"
    /\ \E ok \in BOOLEAN :
        /\ calls' = Append(calls, Call("GetProjectID", "", "", 0, 0, NoField, FALSE, ok))
        /\ IF ok
           THEN /\ pc' = "getTargetProjectID"
                /\ sourceProjectID' = ProjectIDFor(sourceProject)
                /\ UNCHANGED <<err, mappings, sourceProject, targetProject,
                               targetProjectID, sourceIssues, targetIssues, issues,
                               i, k, mi, title, sourceValues, targetValues,
                               targetFieldMap>>
           ELSE Return(ErrSourceID)
    /\ UNCHANGED argVars

\* getProjectIDs, second call (mapping.go:116-121).
GetTargetProjectID ==
    /\ pc = "getTargetProjectID"
    /\ \E ok \in BOOLEAN :
        /\ calls' = Append(calls, Call("GetProjectID", "", "", 0, 0, NoField, FALSE, ok))
        /\ IF ok
           THEN /\ pc' = "getConfigsAndIssues"
                /\ targetProjectID' = ProjectIDFor(targetProject)
                /\ UNCHANGED <<err, mappings, sourceProject, targetProject,
                               sourceProjectID, sourceIssues, targetIssues, issues,
                               i, k, mi, title, sourceValues, targetValues,
                               targetFieldMap>>
           ELSE Return(ErrTargetID)
    /\ UNCHANGED argVars

\* The combined fetch (mapping.go:68-71).  The field configurations it returns
\* are only handed back to GetProjectFieldValues and are not modelled.
GetConfigsAndIssues ==
    /\ pc = "getConfigsAndIssues"
    /\ \E ok \in BOOLEAN, src \in MembershipLists, tgt \in MembershipLists :
        /\ ok \/ (src = <<>> /\ tgt = <<>>)
        /\ calls' = Append(calls, Call("GetProjectFieldConfigsAndIssues", "", "", 0, 0,
                                       NoField, FALSE, ok))
        /\ IF ok
           THEN /\ pc' = "determineIssues"
                /\ sourceIssues' = src
                /\ targetIssues' = tgt
                /\ UNCHANGED <<err, mappings, sourceProject, targetProject,
                               sourceProjectID, targetProjectID, issues, i, k, mi,
                               title, sourceValues, targetValues, targetFieldMap>>
           ELSE Return(ErrConfigs)
    /\ UNCHANGED argVars

\* A plausible slip: an empty intersection is not reported.
SelectIssuesNoError(explicit, src, tgt) ==
    IF Len(explicit) = 0 THEN [ok |-> TRUE, issues |-> findCommonIssues(src, tgt)]
    ELSE [ok |-> TRUE, issues |-> explicit]

\* A plausible slip: the explicit list is restricted to the source's members.
SelectIssuesFiltered(explicit, src, tgt) ==
    IF Len(explicit) = 0
    THEN LET common == findCommonIssues(src, tgt)
         IN  [ok |-> Len(common) # 0, issues |-> common]
    ELSE [ok |-> TRUE, issues |-> findCommonIssues(explicit, src)]

\* The working issue set (mapping.go:73-84): [ok, issues].
SelectIssues(explicit, src, tgt) ==
    IF Len(explicit) = 0
    THEN LET common == findCommonIssues(src, tgt)
         IN  [ok |-> Len(common) # 0, issues |-> common]
    ELSE [ok |-> TRUE, issues |-> explicit]

DetermineIssues ==
    /\ pc = "determineIssues"
    /\ LET sel == SelectIssues(issuesArg, sourceIssues, targetIssues)
       IN  IF sel.ok
           THEN /\ pc' = "processBatches"
                /\ issues' = sel.issues
                /\ UNCHANGED <<err, mappings, sourceProject, targetProject,
                               sourceProjectID, targetProjectID, sourceIssues,
                               targetIssues, i, k, mi, title, sourceValues,
                               targetValues, targetFieldMap>>
           ELSE Return(ErrNoCommonIssues)
    /\ UNCHANGED <<argVars, calls>>

\* A plausible slip: a batch runs up to and including the first position of
\* the next one.
BatchEndInclusive(first) == Min(first + batchSize, Len(issues))

\* Last position of the batch that starts at position first (mapping.go:128-132).
BatchEnd(first) == Min(first + batchSize - 1, Len(issues))

\* processBatches is entered (mapping.go:86, 125-127): of SyncFields' locals
\* only the identities, the working set and the mappings are passed on.
EnterProcessBatches ==
    /\ pc = "processBatches"
    /\ IF Len(issues) >= 1
       THEN /\ pc' = "fetchSource"
            /\ i' = 1
            /\ k' = 1
            /\ sourceProject' = NoProjectInfo
            /\ targetProject' = NoProjectInfo
            /\ sourceIssues' = <<>>
            /\ targetIssues' = <<>>
            /\ sourceValues' = EmptyMap
            /\ targetValues' = EmptyMap
            /\ UNCHANGED <<err, mappings, sourceProjectID, targetProjectID, issues,
                           mi, title, targetFieldMap>>
       ELSE Return(NoError)
    /\ UNCHANGED <<argVars, calls>>

\* A plausible slip: a failed source fetch leaves the issue without source
\* values and the run goes on.
FetchSourceValuesLenient ==
    /\ pc = "fetchSource"
    /\ \E ok \in BOOLEAN, fields \in SourceFieldLists :
        /\ ok \/ fields = <<>>
        /\ calls' = Append(calls, Call("GetProjectFieldValues", sourceProjectID, issues[k],
                                       k, 0, NoField, FALSE, ok))
        /\ pc' = "fetchTarget"
        /\ sourceValues' = MapPut(sourceValues, issues[k], fields)
        /\ UNCHANGED <<err, mappings, sourceProject, targetProject,
                       sourceProjectID, targetProjectID, sourceIssues,
                       targetIssues, issues, i, k, mi, title, targetValues,
                       targetFieldMap>>
    /\ UNCHANGED argVars

\* getFieldValuesForBatch, source side of one issue (mapping.go:193-197).
FetchSourceValues ==
    /\ pc = "fetchSource"
    /\ \E ok \in BOOLEAN, fields \in SourceFieldLists :
        /\ ok \/ fields = <<>>
        /\ calls' = Append(calls, Call("GetProjectFieldValues", sourceProjectID, issues[k],
                                       k, 0, NoField, FALSE, ok))
        /\ IF ok
           THEN /\ pc' = "fetchTarget"
                /\ sourceValues' = MapPut(sourceValues, issues[k], fields)
                /\ UNCHANGED <<err, mappings, sourceProject, targetProject,
                               sourceProjectID, targetProjectID, sourceIssues,
                               targetIssues, issues, i, k, mi, title, targetValues,
                               targetFieldMap>>
           ELSE Return(ErrSourceValues)
    /\ UNCHANGED argVars

\* getFieldValuesForBatch, target side of one issue (mapping.go:200-204), then
\* the next issue of the batch or the batch's processing loop (mapping.go:141).
FetchTargetValues ==
    /\ pc = "fetchTarget"
    /\ \E ok \in BOOLEAN, fields \in TargetFieldLists :
        /\ ok \/ fields = <<>>
        /\ calls' = Append(calls, Call("GetProjectFieldValues", targetProjectID, issues[k],
                                       k, 0, NoField, FALSE, ok))
        /\ IF ok
           THEN /\ targetValues' = MapPut(targetValues, issues[k], fields)
                /\ IF k < BatchEnd(i)
                   THEN pc' = "fetchSource" /\ k' = k + 1
                   ELSE pc' = "getIssueTitle" /\ k' = i
                /\ UNCHANGED <<err, mappings, sourceProject, targetProject,
                               sourceProjectID, targetProjectID, sourceIssues,
                               targetIssues, issues, i, mi, title, sourceValues,
                               targetFieldMap>>
           ELSE Return(ErrTargetValues)
    /\ UNCHANGED argVars

\* The issue at position k is finished: the next issue of the batch, the next
\* batch, or the end of processBatches (mapping.go:127, 141, 166).
AfterIssue(t) ==
    IF k < BatchEnd(i)
    THEN /\ pc' = "getIssueTitle"
         /\ k' = k + 1
         /\ mi' = 0
         /\ title' = t
         /\ UNCHANGED <<err, mappings, sourceProject, targetProject, sourceProjectID,
                        targetProjectID, sourceIssues, targetIssues, issues, i,
                        sourceValues, targetValues, targetFieldMap>>
    ELSE IF i + batchSize <= Len(issues)
    THEN /\ pc' = "fetchSource"
         /\ i' = i + batchSize
         /\ k' = i + batchSize
         /\ mi' = 0
         /\ title' = t
         /\ sourceValues' = EmptyMap
         /\ targetValues' = EmptyMap
         /\ UNCHANGED <<err, mappings, sourceProject, targetProject, sourceProjectID,
                        targetProjectID, sourceIssues, targetIssues, issues,
                        targetFieldMap>>
    ELSE Return(NoError)

\* targetFieldMap (mapping.go:154-157): a later field of the same name
\* overwrites an earlier one.
BuildTargetFieldMap(targetFields) ==
    [n \in {targetFields[j].Name : j \in 1..Len(targetFields)} |->
        LET last == CHOOSE j \in 1..Len(targetFields) :
                        /\ targetFields[j].Name = n
                        /\ \A l \in (j + 1)..Len(targetFields) : targetFields[l].Name # n
        IN  targetFields[last]]

\* A plausible slip: a failed title lookup ends the run.
GetIssueTitleFatal ==
    /\ pc = "getIssueTitle"
    /\ \E ok \in BOOLEAN :
        /\ calls' = Append(calls, Call("GetIssueTitle", "", issues[k], k, 0, NoField,
                                       FALSE, ok))
        /\ IF ~ok THEN Return("failed to get issue title")
           ELSE IF mappings # <<>>
           THEN /\ pc' = "applyMapping"
                /\ mi' = 1
                /\ title' = "title"
                /\ targetFieldMap' = BuildTargetFieldMap(targetValues[issues[k]])
                /\ UNCHANGED <<err, mappings, sourceProject, targetProject,
                               sourceProjectID, targetProjectID, sourceIssues,
                               targetIssues, issues, i, k, sourceValues,
                               targetValues>>
           ELSE AfterIssue("title")
    /\ UNCHANGED argVars

\* The title lookup and the lookup table of one issue (mapping.go:142-157).
GetIssueTitle ==
    /\ pc = "getIssueTitle"
    /\ \E ok \in BOOLEAN :
        /\ calls' = Append(calls, Call("GetIssueTitle", "", issues[k], k, 0, NoField,
                                       FALSE, ok))
        /\ LET t == IF ok THEN "title" ELSE "<unknown>"
           IN  IF mappings # <<>>
               THEN /\ pc' = "applyMapping"
                    /\ mi' = 1
                    /\ title' = t
                    /\ targetFieldMap' = BuildTargetFieldMap(targetValues[issues[k]])
                    /\ UNCHANGED <<err, mappings, sourceProject, targetProject,
                                   sourceProjectID, targetProjectID, sourceIssues,
                                   targetIssues, issues, i, k, sourceValues,
                                   targetValues>>
               ELSE AfterIssue(t)
    /\ UNCHANGED argVars

\* The field applyFieldMappings would send for source field sf (mapping.go:216-219).
Candidate(mapping, sf) == ProjectField("", mapping.TargetField, sf.Value)

\* A plausible slip: the name comparison of mapping.go:214 is missing.
UpdateIndexAnyName(sourceFields, mapping, tfm) ==
    LET hits == {j \in 1..Len(sourceFields) :
                    ~(/\ mapping.TargetField \in DOMAIN tfm
                      /\ fieldsEqual(tfm[mapping.TargetField],
                                     Candidate(mapping, sourceFields[j])))}
    IN  IF hits = {} THEN 0 ELSE CHOOSE j \in hits : \A l \in hits : j <= l

\* The inner loop of applyFieldMappings (mapping.go:213-234): the position of
\* the source field whose value is sent, 0 when no call is made.  A source
\* field of the mapped name whose value equals the target's is passed over
\* (continue) and the loop goes on to the next source field; the loop ends
\* with the first call (break).
UpdateIndex(sourceFields, mapping, tfm) ==
    LET hits == {j \in 1..Len(sourceFields) :
                    /\ sourceFields[j].Name = mapping.SourceField
                    /\ ~(/\ mapping.TargetField \in DOMAIN tfm
                         /\ fieldsEqual(tfm[mapping.TargetField],
                                        Candidate(mapping, sourceFields[j])))}
    IN  IF hits = {} THEN 0 ELSE CHOOSE j \in hits : \A l \in hits : j <= l

\* A plausible slip: the update is always sent as a real one.
ForwardedDryRunFalse(serviceDryRun) == FALSE

\* The dryRun argument of the update call (mapping.go:229).
ForwardedDryRun(serviceDryRun) == serviceDryRun

\* A plausible slip: the loops are nested the other way round, each mapping
\* being applied to every issue of the batch before the next mapping.
AfterMappingIssuesInside ==
    IF k < BatchEnd(i)
    THEN /\ k' = k + 1
         /\ targetFieldMap' = BuildTargetFieldMap(targetValues[issues[k + 1]])
         /\ UNCHANGED <<pc, err, mappings, sourceProject, targetProject, sourceProjectID,
                        targetProjectID, sourceIssues, targetIssues, issues, i, mi, title,
                        sourceValues, targetValues>>
    ELSE IF mi < Len(mappings)
    THEN /\ mi' = mi + 1
         /\ k' = i
         /\ targetFieldMap' = BuildTargetFieldMap(targetValues[issues[i]])
         /\ UNCHANGED <<pc, err, mappings, sourceProject, targetProject, sourceProjectID,
                        targetProjectID, sourceIssues, targetIssues, issues, i, title,
                        sourceValues, targetValues>>
    ELSE AfterIssue(title)

\* The mapping that follows, or the end of applyFieldMappings (mapping.go:212, 236).
AfterMapping ==
    IF mi < Len(mappings)
    THEN /\ mi' = mi + 1
         /\ UNCHANGED <<pc, err, mappings, sourceProject, targetProject, sourceProjectID,
                        targetProjectID, sourceIssues, targetIssues, issues, i, k, title,
                        sourceValues, targetValues, targetFieldMap>>
    ELSE AfterIssue(title)

\* A plausible slip: the update is addressed to the source project.
ApplyFieldMappingToSource ==
    /\ pc = "applyMapping"
    /\ LET mapping == mappings[mi]
           sourceFields == sourceValues[issues[k]]
           j == UpdateIndex(sourceFields, mapping, targetFieldMap)
       IN  IF j = 0
           THEN calls' = calls /\ AfterMapping
           ELSE \E ok \in BOOLEAN :
                   /\ calls' = Append(calls,
                                      Call("UpdateProjectField", sourceProjectID, issues[k],
                                           k, mi, Candidate(mapping, sourceFields[j]),
                                           ForwardedDryRun(dryRun), ok))
                   /\ IF ok THEN AfterMapping ELSE Return(ErrUpdate)
    /\ UNCHANGED argVars

\* One mapping applied to the current issue (mapping.go:212-235, 160-162).
ApplyFieldMapping ==
    /\ pc = "applyMapping"
    /\ LET mapping == mappings[mi]
           sourceFields == sourceValues[issues[k]]
           j == UpdateIndex(sourceFields, mapping, targetFieldMap)
       IN  IF j = 0
           THEN calls' = calls /\ AfterMapping
           ELSE \E ok \in BOOLEAN :
                   /\ calls' = Append(calls,
                                      Call("UpdateProjectField", targetProjectID, issues[k],
                                           k, mi, Candidate(mapping, sourceFields[j]),
                                           ForwardedDryRun(dryRun), ok))
                   /\ IF ok THEN AfterMapping ELSE Return(ErrUpdate)
    /\ UNCHANGED argVars

\* ------------------------------------------------------------------------
\* GraphQLClient (graphql_client.go:366-1234): the cached projects, the
\* remote projects they are loaded from, GetProjectFieldValues and
\* UpdateProjectField
\* ------------------------------------------------------------------------

\* Bounds on a remote project's content.
MaxItems == 1
MaxNodes == 1

ProjectIDs == {"project_1", "project_2"}
ClientIssueURLs == {"u1", "u2"}

NameS == <<"s">>

DateFieldType == "ProjectV2Field"
SingleSelectFieldType == "ProjectV2SingleSelectField"
DateValueType == "ProjectV2ItemFieldDateValue"
SingleSelectValueType == "ProjectV2ItemFieldSingleSelectValue"
TextValueType == "ProjectV2ItemFieldTextValue"

\* ProjectV2FieldConfiguration (graphql_client.go:457-472).
FieldConfiguration(type, id, name, options) ==
    [TypeName |-> type, ID |-> id, Name |-> name, Options |-> options]

\* ProjectV2ItemFieldValue (graphql_client.go:490-514): the type name, the
\* field the value belongs to, and the date or the option name (Nil: null).
ItemFieldValue(type, fieldID, fieldName, date, name) ==
    [TypeName |-> type, FieldID |-> fieldID, FieldName |-> fieldName,
     Date |-> date, Name |-> name]

\* ProjectV2Item (graphql_client.go:475-487).
Item(id, type, url, nodes) ==
    [ID |-> id, TypeName |-> type, URL |-> url, Fields |-> nodes]

\* ProjectV2 (graphql_client.go:440-452); NilProject is the nil pointer.
ProjectV2(id, fields, items) == [ID |-> id, Fields |-> fields, Items |-> items]
NilProject == ProjectV2(Nil, <<>>, <<>>)

\* The fields every remote project is configured with: a date field x and a
\* single-select field s with the option Todo.
RemoteFieldConfigurations ==
    <<FieldConfiguration(DateFieldType, "F_x", NameX, <<>>),
      FieldConfiguration(SingleSelectFieldType, "F_s", NameS,
                         <<[ID |-> "O_todo", Name |-> "Todo"]>>)>>

\* The value nodes an item may carry: a date of x, an option of s, or a value
\* of a type the client does not handle.
RemoteNodes ==
    {ItemFieldValue(DateValueType, "F_x", NameX, d, Nil) : d \in Dates}
        \cup {ItemFieldValue(SingleSelectValueType, "F_s", NameS, Nil, t) : t \in Texts}
        \cup {ItemFieldValue(TextValueType, "", <<>>, Nil, Nil)}

RemoteItems ==
    {Item("", type, url, nodes) :
        type \in {"Issue", "PullRequest"},
        url \in ClientIssueURLs,
        nodes \in SeqsUpTo(RemoteNodes, MaxNodes)}

\* GitHub gives every item of a project its own ID.
WithItemIDs(items) == [n \in 1..Len(items) |-> [items[n] EXCEPT !.ID = <<"item", n>>]]

\* The projects GitHub may hold under the ID.
RemoteProjects(id) ==
    {ProjectV2(id, RemoteFieldConfigurations, WithItemIDs(items)) :
        items \in SeqsUpTo(RemoteItems, MaxItems)}

\* project_1 as GitHub holds it before the run: one issue with a date.
FixedProject ==
    ProjectV2("project_1", RemoteFieldConfigurations,
              <<Item(<<"item", 1>>, "Issue", "u1",
                     <<ItemFieldValue(DateValueType, "F_x", NameX, "2024-01-01", Nil)>>)>>)

VARIABLES
    remote,         \* GitHub's projects, by project ID
    cache,          \* GraphQLClient.cache: sourceProject, targetProject
    lastCall        \* the client method called last and how it ended

clientVars == <<remote, cache, lastCall>>

\* getProjectFromCache (graphql_client.go:761-769).
getProjectFromCache(c, projectID) ==
    IF c.sourceProject # NilProject /\ c.sourceProject.ID = projectID THEN c.sourceProject
    ELSE IF c.targetProject # NilProject /\ c.targetProject.ID = projectID
    THEN c.targetProject
    ELSE NilProject

\* Position of the first Issue item with the URL, 0 when there is none
\* (graphql_client.go:636-637, 741-742, 1118-1119).
IssueItemIndex(project, issueURL) ==
    LET hits == {n \in 1..Len(project.Items) :
                    /\ project.Items[n].TypeName = "Issue"
                    /\ project.Items[n].URL = issueURL}
    IN  IF hits = {} THEN 0 ELSE CHOOSE n \in hits : \A l \in hits : n <= l

\* A plausible slip: the test of graphql_client.go:1153 is missing and a node
\* of a type the client does not handle is returned as an empty field.
ConvertFieldValuesKeepAll(nodes) ==
    [n \in 1..Len(nodes) |->
        IF nodes[n].TypeName = DateValueType
        THEN ProjectField(nodes[n].FieldID, nodes[n].FieldName, DateValue(nodes[n].Date))
        ELSE IF nodes[n].TypeName = SingleSelectValueType
        THEN ProjectField(nodes[n].FieldID, nodes[n].FieldName, TextValue(nodes[n].Name))
        ELSE NoField]

\* The conversion loop of GetProjectFieldValues (graphql_client.go:1130-1156):
\* date and single-select nodes become fields, a node of another type leaves
\* field.ID empty and is dropped.
RECURSIVE ConvertFieldValues(_)
ConvertFieldValues(nodes) ==
    IF nodes = <<>> THEN <<>>
    ELSE LET node == Head(nodes)
             field ==
                 IF node.TypeName = DateValueType
                 THEN ProjectField(node.FieldID, node.FieldName, DateValue(node.Date))
                 ELSE IF node.TypeName = SingleSelectValueType
                 THEN ProjectField(node.FieldID, node.FieldName, TextValue(node.Name))
                 ELSE NoField
         IN  (IF field.ID # "" THEN <<field>> ELSE <<>>) \o ConvertFieldValues(Tail(nodes))

\* GetProjectFieldValues on a project already at hand (graphql_client.go:1116-1158).
FieldValuesIn(project, issueURL) ==
    LET n == IssueItemIndex(project, issueURL)
    IN  IF n = 0 THEN [ok |-> FALSE, fields |-> <<>>]
        ELSE [ok |-> TRUE, fields |-> ConvertFieldValues(project.Items[n].Fields)]

\* GetProjectFieldValues (graphql_client.go:1088-1159) when the fallback
\* query, if one is needed, succeeds: the cached project is used when its ID
\* matches, the remote one otherwise.
GetProjectFieldValues(c, r, projectID, issueURL) ==
    LET project ==
            IF c.sourceProject # NilProject /\ c.sourceProject.ID = projectID
            THEN c.sourceProject
            ELSE IF c.targetProject # NilProject /\ c.targetProject.ID = projectID
            THEN c.targetProject
            ELSE r[projectID]
    IN  FieldValuesIn(project, issueURL)

\* Position of the first date or single-select node of the field in the
\* nodes, 0 when there is none (graphql_client.go:639-650).
ValueNodeIndex(nodes, fieldName) ==
    LET hits == {n \in 1..Len(nodes) :
                    /\ nodes[n].TypeName \in {DateValueType, SingleSelectValueType}
                    /\ nodes[n].FieldName = fieldName}
    IN  IF hits = {} THEN 0 ELSE CHOOSE n \in hits : \A l \in hits : n <= l

NilValue == ItemFieldValue(Nil, "", <<>>, Nil, Nil)

\* findProjectItem (graphql_client.go:635-655): the item's ID and the current
\* value node of the field (NilValue: nil), or an error.
findProjectItem(project, issueURL, fieldName) ==
    LET n == IssueItemIndex(project, issueURL)
    IN  IF n = 0 THEN [ok |-> FALSE, itemID |-> "", currentValue |-> NilValue]
        ELSE LET nodes == project.Items[n].Fields
                 j == ValueNodeIndex(nodes, fieldName)
             IN  [ok |-> TRUE, itemID |-> project.Items[n].ID,
                  currentValue |-> IF j = 0 THEN NilValue ELSE nodes[j]]

\* findProjectField (graphql_client.go:658-672).
findProjectField(project, fieldName) ==
    LET hits == {n \in 1..Len(project.Fields) :
                    /\ project.Fields[n].TypeName \in {DateFieldType, SingleSelectFieldType}
                    /\ project.Fields[n].Name = fieldName}
    IN  IF hits = {} THEN [ok |-> FALSE, fieldID |-> "", isDateField |-> FALSE]
        ELSE LET f == project.Fields[CHOOSE n \in hits : \A l \in hits : n <= l]
             IN  [ok |-> TRUE, fieldID |-> f.ID,
                  isDateField |-> (f.TypeName = DateFieldType)]

\* valuesEqual (graphql_client.go:675-691).
valuesEqual(currentValue, field) ==
    IF currentValue = NilValue THEN FALSE
    ELSE IF currentValue.TypeName = DateValueType
    THEN currentValue.Date # Nil /\ field.Value.Date # Nil
            /\ currentValue.Date = field.Value.Date
    ELSE IF currentValue.TypeName = SingleSelectValueType
    THEN currentValue.Name # Nil /\ field.Value.Text # Nil
            /\ currentValue.Name = field.Value.Text
    ELSE FALSE

\* The option lookup of constructMutationInput (graphql_client.go:713-723):
\* the ID of the first option with the name in the first single-select field
\* with the field's name, "" when there is none.
OptionID(project, fieldName, text) ==
    LET fs == {n \in 1..Len(project.Fields) :
                  /\ project.Fields[n].TypeName = SingleSelectFieldType
                  /\ project.Fields[n].Name = fieldName}
    IN  IF fs = {} THEN ""
        ELSE LET opts == project.Fields[CHOOSE n \in fs : \A l \in fs : n <= l].Options
                 os == {n \in 1..Len(opts) : opts[n].Name = text}
             IN  IF os = {} THEN ""
                 ELSE opts[CHOOSE n \in os : \A l \in os : n <= l].ID

\* A plausible slip: the option is looked up in whichever cached project has
\* the ID, the source project included.
constructMutationInputAnyCached(c, projectID, itemID, fieldID, field, isDateField) ==
    LET input(value) == [ProjectID |-> projectID, ItemID |-> itemID,
                         FieldID |-> fieldID, Value |-> value]
        project == getProjectFromCache(c, projectID)
    IN  IF isDateField /\ field.Value.Date # Nil
        THEN [ok |-> TRUE, input |-> input(DateValue(field.Value.Date))]
        ELSE IF ~isDateField /\ field.Value.Text # Nil
        THEN IF project = NilProject
             THEN [ok |-> FALSE, input |-> input(UnsetValue)]
             ELSE LET optionID == OptionID(project, field.Name, field.Value.Text)
                  IN  IF optionID = "" THEN [ok |-> FALSE, input |-> input(UnsetValue)]
                      ELSE [ok |-> TRUE, input |-> input(TextValue(optionID))]
        ELSE [ok |-> FALSE, input |-> input(UnsetValue)]

\* constructMutationInput (graphql_client.go:694-737).
constructMutationInput(c, projectID, itemID, fieldID, field, isDateField) ==
    LET input(value) == [ProjectID |-> projectID, ItemID |-> itemID,
                         FieldID |-> fieldID, Value |-> value]
    IN  IF isDateField /\ field.Value.Date # Nil
        THEN [ok |-> TRUE, input |-> input(DateValue(field.Value.Date))]
        ELSE IF ~isDateField /\ field.Value.Text # Nil
        THEN IF ~(c.targetProject # NilProject /\ c.targetProject.ID = projectID)
             THEN [ok |-> FALSE, input |-> input(UnsetValue)]
             ELSE LET optionID == OptionID(c.targetProject, field.Name, field.Value.Text)
                  IN  IF optionID = "" THEN [ok |-> FALSE, input |-> input(UnsetValue)]
                      ELSE [ok |-> TRUE, input |-> input(TextValue(optionID))]
        ELSE [ok |-> FALSE, input |-> input(UnsetValue)]

\* The assignment of updateCacheFieldValue to one node (graphql_client.go:744-755).
UpdatedNode(node, field) ==
    IF node.TypeName = DateValueType /\ node.FieldName = field.Name
    THEN [node EXCEPT !.Date = field.Value.Date]
    ELSE IF node.TypeName = SingleSelectValueType /\ node.FieldName = field.Name
    THEN [node EXCEPT !.Name = field.Value.Text]
    ELSE node

\* updateCacheFieldValue (graphql_client.go:740-758): every matching node of
\* the first Issue item with the URL takes the new value.
updateCacheFieldValue(project, issueURL, field) ==
    LET n == IssueItemIndex(project, issueURL)
    IN  IF n = 0 THEN project
        ELSE [project EXCEPT !.Items[n].Fields =
                 [j \in 1..Len(@) |-> UpdatedNode(@[j], field)]]

\* The field configuration with the ID (the mutation names the field by ID).
ConfigurationByID(project, fieldID) ==
    project.Fields[CHOOSE n \in 1..Len(project.Fields) : project.Fields[n].ID = fieldID]

\* The name of the option with the ID.
OptionName(config, optionID) ==
    config.Options[CHOOSE n \in 1..Len(config.Options) : config.Options[n].ID = optionID].Name

\* The value node GitHub stores for a mutation input.
NodeFor(project, input) ==
    LET config == ConfigurationByID(project, input.FieldID)
    IN  IF config.TypeName = DateFieldType
        THEN ItemFieldValue(DateValueType, config.ID, config.Name, input.Value.Date, Nil)
        ELSE ItemFieldValue(SingleSelectValueType, config.ID, config.Name, Nil,
                            OptionName(config, input.Value.Text))

\* The nodes of an item after GitHub has stored the node: it replaces the
\* item's value of the field, or is added when the item had none.
NodesWith(nodes, node) ==
    IF \E n \in 1..Len(nodes) : nodes[n].FieldID = node.FieldID
    THEN [n \in 1..Len(nodes) |-> IF nodes[n].FieldID = node.FieldID THEN node ELSE nodes[n]]
    ELSE Append(nodes, node)

\* GitHub's projects after the updateProjectV2ItemFieldValue mutation sent by
\* executeFieldUpdate (graphql_client.go:814-826) has succeeded.
RemoteAfterMutation(r, input) ==
    LET project == r[input.ProjectID]
        node == NodeFor(project, input)
    IN  [r EXCEPT ![input.ProjectID].Items =
            [n \in 1..Len(@) |->
                IF @[n].ID = input.ItemID
                THEN [@[n] EXCEPT !.Fields = NodesWith(@, node)]
                ELSE @[n]]]

\* A plausible slip: the dry-run flag is not consulted.
ExecutesMutationAlways(dr) == TRUE

\* The guard of the mutation block (graphql_client.go:865).
ExecutesMutation(dr) == ~dr

\* The cache after updateCacheFieldValue has run on the project the call
\* worked on (graphql_client.go:831, 878): the cached source project when its
\* ID matches, else the cached target project, else a fetched copy that is
\* dropped at the return.
CacheAfterUpdate(c, projectID, issueURL, field) ==
    IF c.sourceProject # NilProject /\ c.sourceProject.ID = projectID
    THEN [c EXCEPT !.sourceProject = updateCacheFieldValue(@, issueURL, field)]
    ELSE IF c.targetProject # NilProject /\ c.targetProject.ID = projectID
    THEN [c EXCEPT !.targetProject = updateCacheFieldValue(@, issueURL, field)]
    ELSE c

ClientCall(op, dr, outcome) == [op |-> op, dryRun |-> dr, outcome |-> outcome]

\* An UpdateProjectField call that has sent a mutation, with the input sent.
MutationCall(dr, outcome, input) ==
    [op |-> "UpdateProjectField", dryRun |-> dr, outcome |-> outcome, input |-> input]
NoCall == ClientCall("", FALSE, "")

\* UpdateProjectField (graphql_client.go:829-882). Each GitHub request the
\* call makes, the fallback query of fetchProject and the mutation, succeeds
\* or fails.
UpdateProjectField(projectID, issueURL, field, dr) ==
    LET cached == getProjectFromCache(cache, projectID)
        project == IF cached # NilProject THEN cached ELSE remote[projectID]
        item == findProjectItem(project, issueURL, field.Name)
        config == findProjectField(project, field.Name)
        built == constructMutationInput(cache, project.ID, item.itemID,
                                        config.fieldID, field, config.isDateField)
        return(outcome) ==
            /\ lastCall' = ClientCall("UpdateProjectField", dr, outcome)
            /\ UNCHANGED <<remote, cache>>
    IN  \/ /\ cached = NilProject
           /\ return("query failed")
        \/ IF ~item.ok THEN return("issue not found")
           ELSE IF valuesEqual(item.currentValue, field) THEN return("equal")
           ELSE IF ~config.ok THEN return("field not found")
           ELSE IF ~ExecutesMutation(dr) THEN return("dry run")
           ELSE IF ~built.ok THEN return("no mutation input")
           ELSE \/ /\ lastCall' = MutationCall(dr, "mutation failed", built.input)
                   /\ UNCHANGED <<remote, cache>>
                \/ /\ remote' = RemoteAfterMutation(remote, built.input)
                   /\ cache' = CacheAfterUpdate(cache, projectID, issueURL, field)
                   /\ lastCall' = MutationCall(dr, "updated", built.input)

\* The fields a caller may pass to UpdateProjectField: the date field, the
\* single-select field and a field no project has.
UpdateFields ==
    {ProjectField("", name, value) :
        name \in {NameX, NameS},
        value \in {DateValue(d) : d \in Dates}
                    \cup {TextValue(t) : t \in Texts \cup {"Done"}}
                    \cup {UnsetValue}}
        \cup {ProjectField("", NameA, DateValue("2024-01-01"))}

UpdateProjectFieldCall ==
    \E projectID \in ProjectIDs, issueURL \in ClientIssueURLs, field \in UpdateFields,
       dr \in BOOLEAN :
        UpdateProjectField(projectID, issueURL, field, dr)

\* GetProjectFieldConfigsAndIssues (graphql_client.go:945-1085). Every project
\* here has fewer items than the page size of 100, so the first query returns
\* all of them and the paging loop ends after one round.
GetProjectFieldConfigsAndIssuesCall ==
    \E sourceID \in ProjectIDs, targetID \in ProjectIDs, queryOk \in BOOLEAN :
        /\ cache' = IF queryOk
                    THEN [sourceProject |-> remote[sourceID],
                          targetProject |-> remote[targetID]]
                    ELSE cache
        /\ lastCall' = ClientCall("GetProjectFieldConfigsAndIssues", FALSE,
                                  IF queryOk THEN "loaded" ELSE "query failed")
        /\ UNCHANGED remote

\* A call of GetProjectFieldValues (graphql_client.go:1088-1159).
GetProjectFieldValuesCall ==
    \E projectID \in ProjectIDs, issueURL \in ClientIssueURLs, queryOk \in BOOLEAN :
        LET cached == getProjectFromCache(cache, projectID)
            result == GetProjectFieldValues(cache, remote, projectID, issueURL)
        IN  /\ lastCall' = ClientCall("GetProjectFieldValues", FALSE,
                              IF cached = NilProject /\ ~queryOk THEN "query failed"
                              ELSE IF ~result.ok THEN "issue not found"
                              ELSE "values")
            /\ UNCHANGED <<remote, cache>>

\* ------------------------------------------------------------------------
\* The paging loop of GetProjectFieldConfigsAndIssues
\* (graphql_client.go:945-1085) against projects of several pages
\* ------------------------------------------------------------------------

\* The page size of both item connections (graphql_client.go:957).
pageSize == 100

\* Bounds: the full pages a project holds beyond its last, possibly partial
\* page, and the queries one call may make.
MaxFullPages == 2
MaxQueries == 4

\* The numbers of items a project may hold: full pages, alone or followed by
\* a page of one item.
ItemCounts == {pageSize * full + rest : full \in 0..MaxFullPages, rest \in {0, 1}}

\* The n-th item of a project: every third item is a pull request, the others
\* are issues; an item's URL is unique in its project.
BulkItem(projectID, n) ==
    Item(<<"item", n>>, IF n % 3 = 0 THEN "PullRequest" ELSE "Issue", <<projectID, n>>, <<>>)

BulkProject(projectID, count) ==
    ProjectV2(projectID, RemoteFieldConfigurations,
              [n \in 1..count |-> BulkItem(projectID, n)])

\* A cursor names a position in the item connection of one project;
\* NilCursor is the null cursor of the first query.
Cursor(projectID, position) == [project |-> projectID, position |-> position]
NilCursor == Cursor(Nil, 0)

\* How GitHub may read a cursor that another project's connection issued: as
\* the same position in this connection, as no cursor, or as an error.
ForeignCursorReadings == {"position", "none", "error"}

\* The position a connection resumes from (-1: the query is refused).
ResumePosition(project, cursor, reading) ==
    IF cursor = NilCursor THEN 0
    ELSE IF cursor.project = project.ID \/ reading = "position"
    THEN IF cursor.position < Len(project.Items) THEN cursor.position
         ELSE Len(project.Items)
    ELSE IF reading = "none" THEN 0
    ELSE 0 - 1

\* One page of a project's items(first: 100, after: $afterCursor) connection.
ItemsPage(project, start) ==
    LET end == Min(start + pageSize, Len(project.Items))
    IN  [Nodes |-> SubSeq(project.Items, start + 1, end),
         HasNextPage |-> end < Len(project.Items),
         EndCursor |-> IF end > start THEN Cursor(project.ID, end) ELSE NilCursor]

\* The URLs of the Issue items, in order (graphql_client.go:1061-1073).
IssueURLsOf(items) ==
    LET issueItems == SelectSeq(items, LAMBDA item : item.TypeName = "Issue")
    IN  [n \in 1..Len(issueItems) |-> issueItems[n].URL]

VARIABLES
    loadPc,         \* position of the call: "idle", "loop" or "returned"
    loadArgs,       \* sourceProjectID, targetProjectID
    page,           \* queries made
    afterCursor,    \* the cursor of the next query
    sourceItems,    \* items collected for the source project
    targetItems,    \* items collected for the target project
    loadResult      \* ok, sourceIssues, targetIssues

loadVars == <<loadPc, loadArgs, page, afterCursor, sourceItems, targetItems, loadResult>>

NoLoadResult == [ok |-> FALSE, sourceIssues |-> <<>>, targetIssues |-> <<>>]

\* The loop's exit test (graphql_client.go:991-993).
LastPage(sourcePage, targetPage) == ~sourcePage.HasNextPage /\ ~targetPage.HasNextPage

\* The cursor of the next query (graphql_client.go:996-1002).
NextCursor(sourcePage, targetPage) ==
    IF sourcePage.HasNextPage THEN sourcePage.EndCursor
    ELSE IF targetPage.HasNextPage THEN targetPage.EndCursor
    ELSE afterCursor

\* One round of the loop (graphql_client.go:976-1003) and, after the last
\* page, the rest of the call (graphql_client.go:1005-1084).
LoadPage ==
    /\ loadPc = "loop"
    /\ page < MaxQueries
    /\ \E queryOk \in BOOLEAN, reading \in ForeignCursorReadings :
        LET source == remote[loadArgs[1]]
            target == remote[loadArgs[2]]
            sourceStart == ResumePosition(source, afterCursor, reading)
            targetStart == ResumePosition(target, afterCursor, reading)
            sourcePage == ItemsPage(source, sourceStart)
            targetPage == ItemsPage(target, targetStart)
            allSource == sourceItems \o sourcePage.Nodes
            allTarget == targetItems \o targetPage.Nodes
        IN  /\ page' = page + 1
            /\ IF ~queryOk \/ sourceStart < 0 \/ targetStart < 0
               THEN /\ loadPc' = "returned"
                    /\ loadResult' = NoLoadResult
                    /\ UNCHANGED <<afterCursor, sourceItems, targetItems, cache>>
               ELSE /\ sourceItems' = allSource
                    /\ targetItems' = allTarget
                    /\ IF LastPage(sourcePage, targetPage)
                       THEN /\ loadPc' = "returned"
                            /\ cache' = [sourceProject |->
                                             ProjectV2(source.ID, source.Fields, allSource),
                                         targetProject |->
                                             ProjectV2(target.ID, target.Fields, allTarget)]
                            /\ loadResult' = [ok |-> TRUE,
                                              sourceIssues |-> IssueURLsOf(allSource),
                                              targetIssues |-> IssueURLsOf(allTarget)]
                            /\ UNCHANGED afterCursor
                       ELSE /\ afterCursor' = NextCursor(sourcePage, targetPage)
                            /\ UNCHANGED <<loadPc, loadResult, cache>>
    /\ UNCHANGED <<loadArgs, remote, lastCall>>

\* ------------------------------------------------------------------------
\* Service.SyncFields over a repository that reflects its updates: what the
\* github.Client (client.go:96-117) returns from GetProjectFieldValues is
\* what the projects hold, and a successful UpdateProjectField that is no dry
\* run changes what the target project holds
\* ------------------------------------------------------------------------

VARIABLES
    repoSource,     \* the source project's field values of each issue
    repoTarget,     \* the target project's field values of each issue
    run,            \* 0: no repository; 1, 2: the SyncFields run in progress
    runStart        \* the length of the call log when the current run began

repoVars == <<repoSource, repoTarget, run, runStart>>

\* An issue's field values after the field has been set: a project item has
\* one value for a field.
RepoAfterUpdate(fields, field) ==
    IF field.Name \in {fields[n].Name : n \in 1..Len(fields)}
    THEN [n \in 1..Len(fields) |->
            IF fields[n].Name = field.Name
            THEN ProjectField(fields[n].ID, fields[n].Name, field.Value)
            ELSE fields[n]]
    ELSE Append(fields, ProjectField(field.Name, field.Name, field.Value))

\* The last call of the log after a step that has added one.
LastCall == calls'[Len(calls')]

\* Both projects hold every issue.
RepoMembers == <<"u1", "u2">>

\* GetProjectFieldConfigsAndIssues returns the issues the projects hold.
RepoGetConfigsAndIssues ==
    /\ GetConfigsAndIssues
    /\ LastCall.ok => sourceIssues' = RepoMembers /\ targetIssues' = RepoMembers
    /\ UNCHANGED repoVars

\* GetProjectFieldValues on the source project returns what the project holds.
RepoFetchSourceValues ==
    /\ FetchSourceValues
    /\ LastCall.ok => sourceValues'[LastCall.issue] = repoSource[LastCall.issue]
    /\ UNCHANGED repoVars

\* GetProjectFieldValues on the target project returns what the project holds.
RepoFetchTargetValues ==
    /\ FetchTargetValues
    /\ LastCall.ok => targetValues'[LastCall.issue] = repoTarget[LastCall.issue]
    /\ UNCHANGED repoVars

\* GetIssueTitle succeeds: the repository knows the title of every issue.
RepoGetIssueTitle ==
    /\ GetIssueTitle
    /\ LastCall.ok
    /\ UNCHANGED repoVars

\* The values a project of the repository holds after a step: a successful
\* UpdateProjectField that is no dry run and is addressed to the project is
\* reflected.
RepoAfterStep(held, projectID) ==
    IF /\ Len(calls') > Len(calls)
       /\ LastCall.ok
       /\ ~LastCall.dryRun
       /\ LastCall.project = projectID
    THEN [held EXCEPT ![LastCall.issue] = RepoAfterUpdate(@, LastCall.field)]
    ELSE held

\* One mapping applied over the repository (the source project is
\* "project_1", the target project "project_2").
RepoApplyFieldMapping ==
    /\ ApplyFieldMapping
    /\ repoSource' = RepoAfterStep(repoSource, "project_1")
    /\ repoTarget' = RepoAfterStep(repoTarget, "project_2")
    /\ UNCHANGED <<run, runStart>>

\* SyncFields is called a second time on the same Service with the same
\* arguments, after a first run that returned no error (mapping.go:54-87).
SecondRun ==
    /\ run = 1
    /\ pc = "done"
    /\ err = NoError
    /\ run' = 2
    /\ runStart' = Len(calls)
    /\ pc' = "parseInputs"
    /\ issues' = <<>>
    /\ UNCHANGED <<argVars, err, mappings, sourceProject, targetProject, sourceProjectID,
                   targetProjectID, sourceIssues, targetIssues, i, k, mi, title,
                   sourceValues, targetValues, targetFieldMap, calls,
                   repoSource, repoTarget>>

\* ------------------------------------------------------------------------
\* Specifications
\* ------------------------------------------------------------------------

vars == <<fnVars, svcVars, clientVars, loadVars, repoVars>>

\* No SyncFields run (the specifications of the pure functions).
ServiceIdle ==
    /\ dryRun = FALSE
    /\ sourceProjectURL = OrgProjectURL
    /\ targetProjectURL = OrgProjectURL
    /\ issuesArg = <<>>
    /\ fieldMappings = <<>>
    /\ pc = "idle"
    /\ err = NoError
    /\ mappings = <<>>
    /\ sourceProject = NoProjectInfo
    /\ targetProject = NoProjectInfo
    /\ sourceProjectID = ""
    /\ targetProjectID = ""
    /\ sourceIssues = <<>>
    /\ targetIssues = <<>>
    /\ issues = <<>>
    /\ i = 0
    /\ k = 0
    /\ mi = 0
    /\ title = ""
    /\ sourceValues = EmptyMap
    /\ targetValues = EmptyMap
    /\ targetFieldMap = EmptyMap
    /\ calls = <<>>

FunctionIdle ==
    /\ fnArgs = <<>>
    /\ fnResult = <<>>

\* No GraphQLClient (the Service is run over the github.Client interface).
ClientIdle ==
    /\ remote = <<>>
    /\ cache = [sourceProject |-> NilProject, targetProject |-> NilProject]
    /\ lastCall = NoCall

\* No call of GetProjectFieldConfigsAndIssues is followed page by page.
LoadIdle ==
    /\ loadPc = "idle"
    /\ loadArgs = <<>>
    /\ page = 0
    /\ afterCursor = NilCursor
    /\ sourceItems = <<>>
    /\ targetItems = <<>>
    /\ loadResult = NoLoadResult

\* No repository stands behind the client.
RepoIdle ==
    /\ repoSource = <<>>
    /\ repoTarget = <<>>
    /\ run = 0
    /\ runStart = 0

\* A Service is constructed (NewService) and SyncFields is called once.
Init ==
    /\ FunctionIdle
    /\ ClientIdle
    /\ LoadIdle
    /\ RepoIdle
    /\ dryRun \in BOOLEAN
    /\ sourceProjectURL \in {OrgProjectURL, ForeignURL}
    /\ targetProjectURL \in {UserProjectURL, ForeignURL}
    /\ issuesArg \in SeqsUpTo(SyncIssueURLs, MaxIssues)
    /\ fieldMappings \in SeqsUpTo(RawMappings, MaxMappings)
    /\ pc = "parseInputs"
    /\ err = NoError
    /\ mappings = <<>>
    /\ sourceProject = NoProjectInfo
    /\ targetProject = NoProjectInfo
    /\ sourceProjectID = ""
    /\ targetProjectID = ""
    /\ sourceIssues = <<>>
    /\ targetIssues = <<>>
    /\ issues = <<>>
    /\ i = 0
    /\ k = 0
    /\ mi = 0
    /\ title = ""
    /\ sourceValues = EmptyMap
    /\ targetValues = EmptyMap
    /\ targetFieldMap = EmptyMap
    /\ calls = <<>>

Next ==
    \/ ParseInputs /\ UNCHANGED <<fnVars, clientVars, loadVars, repoVars>>
    \/ GetSourceProjectID /\ UNCHANGED <<fnVars, clientVars, loadVars, repoVars>>
    \/ GetTargetProjectID /\ UNCHANGED <<fnVars, clientVars, loadVars, repoVars>>
    \/ GetConfigsAndIssues /\ UNCHANGED <<fnVars, clientVars, loadVars, repoVars>>
    \/ DetermineIssues /\ UNCHANGED <<fnVars, clientVars, loadVars, repoVars>>
    \/ EnterProcessBatches /\ UNCHANGED <<fnVars, clientVars, loadVars, repoVars>>
    \/ FetchSourceValues /\ UNCHANGED <<fnVars, clientVars, loadVars, repoVars>>
    \/ FetchTargetValues /\ UNCHANGED <<fnVars, clientVars, loadVars, repoVars>>
    \/ GetIssueTitle /\ UNCHANGED <<fnVars, clientVars, loadVars, repoVars>>
    \/ ApplyFieldMapping /\ UNCHANGED <<fnVars, clientVars, loadVars, repoVars>>

Spec == Init /\ [][Next]_vars

\* findCommonIssues applied to membership lists within the bounds.
InitCommon ==
    /\ ServiceIdle
    /\ ClientIdle
    /\ LoadIdle
    /\ RepoIdle
    /\ fnArgs \in SeqsUpTo(IssueURLs, MaxSourceIssues) \X SeqsUpTo(IssueURLs, MaxTargetIssues)
    /\ fnResult = <<"pending">>

ApplyFindCommonIssues ==
    /\ fnResult = <<"pending">>
    /\ fnResult' = <<"returned", findCommonIssues(fnArgs[1], fnArgs[2])>>
    /\ UNCHANGED <<fnArgs, svcVars, clientVars, loadVars, repoVars>>

NextCommon == ApplyFindCommonIssues

SpecCommon == InitCommon /\ [][NextCommon]_vars

\* A GraphQLClient is constructed (NewGraphQLClient) against GitHub's
\* projects and its methods are called in any order.
InitClient ==
    /\ ServiceIdle
    /\ FunctionIdle
    /\ LoadIdle
    /\ RepoIdle
    /\ remote \in {[projectID \in ProjectIDs |->
                       IF projectID = "project_1" THEN FixedProject ELSE project] :
                   project \in RemoteProjects("project_2")}
    /\ cache = [sourceProject |-> NilProject, targetProject |-> NilProject]
    /\ lastCall = NoCall

NextClient ==
    \/ GetProjectFieldConfigsAndIssuesCall /\ UNCHANGED <<fnVars, svcVars, loadVars, repoVars>>
    \/ GetProjectFieldValuesCall /\ UNCHANGED <<fnVars, svcVars, loadVars, repoVars>>
    \/ UpdateProjectFieldCall /\ UNCHANGED <<fnVars, svcVars, loadVars, repoVars>>

SpecClient == InitClient /\ [][NextClient]_vars

\* Bounds on the inputs of ParseFieldMappings: the strings and their length.
MaxMappingStrings == 2
MaxStringLen == 4

\* The characters of a mapping string: a letter, the separator, white space.
MappingChars == {"a", "=", " "}

\* ParseFieldMappings applied to lists of strings within the bounds.
InitMappings ==
    /\ ServiceIdle
    /\ ClientIdle
    /\ LoadIdle
    /\ RepoIdle
    /\ fnArgs \in {<<fms>> : fms \in SeqsUpTo(SeqsUpTo(MappingChars, MaxStringLen),
                                              MaxMappingStrings)}
    /\ fnResult = <<"pending">>

ApplyParseFieldMappings ==
    /\ fnResult = <<"pending">>
    /\ fnResult' = <<"returned", ParseFieldMappings(fnArgs[1])>>
    /\ UNCHANGED <<fnArgs, svcVars, clientVars, loadVars, repoVars>>

NextMappings == ApplyParseFieldMappings

SpecMappings == InitMappings /\ [][NextMappings]_vars

\* Bounds on the inputs of ParseProjectURL: the segments of a path, and the
\* project numbers a URL is written for.
MaxSegments == 5
MaxProjectNumber == 12

\* The segments a path is made of: the owner tokens, "projects", a login,
\* numbers (among them zero and a negative one), and the empty segment.
PathSegments ==
    {OrgsToken, UsersToken, ProjectsToken, <<"m">>, <<"1">>, <<"1", "2">>, <<"0">>,
     <<"-", "5">>, <<>>}

URLHosts == {"github.com", "gitlab.com"}

\* The path with the segments: each segment follows a "/".
RECURSIVE PathOf(_)
PathOf(segments) ==
    IF segments = <<>> THEN <<>>
    ELSE <<"/">> \o Head(segments) \o PathOf(Tail(segments))

\* ParseProjectURL applied to the URLs within the bounds.
InitURL ==
    /\ ServiceIdle
    /\ ClientIdle
    /\ LoadIdle
    /\ RepoIdle
    /\ fnArgs \in {<<[Host |-> host, Path |-> PathOf(segments)]>> :
                      host \in URLHosts,
                      segments \in SeqsUpTo(PathSegments, MaxSegments)}
    /\ fnResult = <<"pending">>

ApplyParseProjectURL ==
    /\ fnResult = <<"pending">>
    /\ fnResult' = <<"returned", ParseProjectURL(fnArgs[1])>>
    /\ UNCHANGED <<fnArgs, svcVars, clientVars, loadVars, repoVars>>

NextURL == ApplyParseProjectURL

SpecURL == InitURL /\ [][NextURL]_vars

\* A GraphQLClient with an empty cache is asked for the configurations and
\* issues of two projects of up to MaxFullPages full pages and more.
InitLoad ==
    /\ ServiceIdle
    /\ FunctionIdle
    /\ remote \in {[projectID \in ProjectIDs |->
                       BulkProject(projectID, IF projectID = "project_1" THEN sourceCount
                                              ELSE targetCount)] :
                   sourceCount \in ItemCounts, targetCount \in ItemCounts}
    /\ cache = [sourceProject |-> NilProject, targetProject |-> NilProject]
    /\ lastCall = NoCall
    /\ RepoIdle
    /\ loadPc = "loop"
    /\ loadArgs = <<"project_1", "project_2">>
    /\ page = 0
    /\ afterCursor = NilCursor
    /\ sourceItems = <<>>
    /\ targetItems = <<>>
    /\ loadResult = NoLoadResult

NextLoad == LoadPage /\ UNCHANGED <<fnVars, svcVars, repoVars>>

SpecLoad == InitLoad /\ [][NextLoad]_vars

\* Mappings and working sets of the runs over the repository.
RepoMappings == {<<"a", "=", "x">>, <<" ", "b", " ", "=", " ", "x">>}
RepoIssueLists == {<<>>, <<"u1">>, <<"u2", "u1">>}

\* A Service that is no dry run is constructed over a repository and
\* SyncFields is called.
InitRepo ==
    /\ FunctionIdle
    /\ ClientIdle
    /\ LoadIdle
    /\ repoSource \in [SyncIssueURLs -> SourceFieldLists]
    /\ repoTarget \in [SyncIssueURLs -> TargetFieldLists]
    /\ run = 1
    /\ runStart = 0
    /\ dryRun = FALSE
    /\ sourceProjectURL = OrgProjectURL
    /\ targetProjectURL = UserProjectURL
    /\ issuesArg \in RepoIssueLists
    /\ fieldMappings \in SeqsUpTo(RepoMappings, MaxMappings) \ {<<>>}
    /\ pc = "parseInputs"
    /\ err = NoError
    /\ mappings = <<>>
    /\ sourceProject = NoProjectInfo
    /\ targetProject = NoProjectInfo
    /\ sourceProjectID = ""
    /\ targetProjectID = ""
    /\ sourceIssues = <<>>
    /\ targetIssues = <<>>
    /\ issues = <<>>
    /\ i = 0
    /\ k = 0
    /\ mi = 0
    /\ title = ""
    /\ sourceValues = EmptyMap
    /\ targetValues = EmptyMap
    /\ targetFieldMap = EmptyMap
    /\ calls = <<>>

NextRepo ==
    \/ ParseInputs /\ UNCHANGED <<fnVars, clientVars, loadVars, repoVars>>
    \/ GetSourceProjectID /\ UNCHANGED <<fnVars, clientVars, loadVars, repoVars>>
    \/ GetTargetProjectID /\ UNCHANGED <<fnVars, clientVars, loadVars, repoVars>>
    \/ RepoGetConfigsAndIssues /\ UNCHANGED <<fnVars, clientVars, loadVars>>
    \/ DetermineIssues /\ UNCHANGED <<fnVars, clientVars, loadVars, repoVars>>
    \/ EnterProcessBatches /\ UNCHANGED <<fnVars, clientVars, loadVars, repoVars>>
    \/ RepoFetchSourceValues /\ UNCHANGED <<fnVars, clientVars, loadVars>>
    \/ RepoFetchTargetValues /\ UNCHANGED <<fnVars, clientVars, loadVars>>
    \/ GetIssueTitle /\ UNCHANGED <<fnVars, clientVars, loadVars, repoVars>>
    \/ RepoApplyFieldMapping /\ UNCHANGED <<fnVars, clientVars, loadVars>>
    \/ SecondRun /\ UNCHANGED <<fnVars, clientVars, loadVars>>

SpecRepo == InitRepo /\ [][NextRepo]_vars

\* The fields fieldsEqual is applied to: a name and a value that is a date, a
\* text or unset.
EqualTexts == {"Todo", "Done"}
EqualValues ==
    {DateValue(d) : d \in Dates} \cup {TextValue(t) : t \in EqualTexts} \cup {UnsetValue}
EqualFields == {ProjectField(n, n, v) : n \in {NameA, NameX}, v \in EqualValues}

InitEqual ==
    /\ ServiceIdle
    /\ ClientIdle
    /\ LoadIdle
    /\ RepoIdle
    /\ fnArgs \in EqualFields \X EqualFields
    /\ fnResult = <<"pending">>

ApplyFieldsEqual ==
    /\ fnResult = <<"pending">>
    /\ fnResult' = <<"returned", fieldsEqual(fnArgs[1], fnArgs[2])>>
    /\ UNCHANGED <<fnArgs, svcVars, clientVars, loadVars, repoVars>>

NextEqual == ApplyFieldsEqual

SpecEqual == InitEqual /\ [][NextEqual]_vars

\* Working sets of up to MaxBatchIssues issues, long enough for several
\* batches: explicit lists naming the two issues in turn.
MaxBatchIssues == 21
BatchIssueLists ==
    {[p \in 1..n |-> IF p % 2 = 1 THEN "u1" ELSE "u2"] : n \in 0..MaxBatchIssues}

\* One SyncFields run over a repository, for a working set of several batches.
InitBatch ==
    /\ FunctionIdle
    /\ ClientIdle
    /\ LoadIdle
    /\ repoSource \in [SyncIssueURLs ->
                          {<<>>, <<ProjectField(NameA, NameA, DateValue("2024-01-01"))>>}]
    /\ repoTarget = [u \in SyncIssueURLs |-> <<>>]
    /\ run = 1
    /\ runStart = 0
    /\ dryRun \in BOOLEAN
    /\ sourceProjectURL = OrgProjectURL
    /\ targetProjectURL = UserProjectURL
    /\ issuesArg \in BatchIssueLists
    /\ fieldMappings = <<<<"a", "=", "x">>>>
    /\ pc = "parseInputs"
    /\ err = NoError
    /\ mappings = <<>>
    /\ sourceProject = NoProjectInfo
    /\ targetProject = NoProjectInfo
    /\ sourceProjectID = ""
    /\ targetProjectID = ""
    /\ sourceIssues = <<>>
    /\ targetIssues = <<>>
    /\ issues = <<>>
    /\ i = 0
    /\ k = 0
    /\ mi = 0
    /\ title = ""
    /\ sourceValues = EmptyMap
    /\ targetValues = EmptyMap
    /\ targetFieldMap = EmptyMap
    /\ calls = <<>>

NextBatch ==
    \/ ParseInputs /\ UNCHANGED <<fnVars, clientVars, loadVars, repoVars>>
    \/ GetSourceProjectID /\ UNCHANGED <<fnVars, clientVars, loadVars, repoVars>>
    \/ GetTargetProjectID /\ UNCHANGED <<fnVars, clientVars, loadVars, repoVars>>
    \/ RepoGetConfigsAndIssues /\ UNCHANGED <<fnVars, clientVars, loadVars>>
    \/ DetermineIssues /\ UNCHANGED <<fnVars, clientVars, loadVars, repoVars>>
    \/ EnterProcessBatches /\ UNCHANGED <<fnVars, clientVars, loadVars, repoVars>>
    \/ RepoFetchSourceValues /\ UNCHANGED <<fnVars, clientVars, loadVars>>
    \/ RepoFetchTargetValues /\ UNCHANGED <<fnVars, clientVars, loadVars>>
    \/ RepoGetIssueTitle /\ UNCHANGED <<fnVars, clientVars, loadVars>>
    \/ RepoApplyFieldMapping /\ UNCHANGED <<fnVars, clientVars, loadVars>>

SpecBatch == InitBatch /\ [][NextBatch]_vars

\* ------------------------------------------------------------------------
\* Properties
\* ------------------------------------------------------------------------

\* The calls a step adds to the log.
NewCalls == SubSeq(calls', Len(calls) + 1, Len(calls'))

UpdateCalls == {n \in 1..Len(calls) : calls[n].op = "UpdateProjectField"}

PerIssueCalls ==
    {n \in 1..Len(calls) :
        calls[n].op \in {"GetProjectFieldValues", "GetIssueTitle", "UpdateProjectField"}}

\* The names of the fields in a list of fetched values.
FieldNames(fields) == {fields[j].Name : j \in 1..Len(fields)}

\* The first field of the name in a list that holds one.
FirstFieldNamed(fields, name) ==
    fields[CHOOSE j \in 1..Len(fields) :
              /\ fields[j].Name = name
              /\ \A l \in 1..(j - 1) : fields[l].Name # name]

\* C1: when a mapping is applied to an issue whose source values hold the
\* mapping's source field, no UpdateProjectField call is made if the target's
\* field of the mapped name has a value equal to the source field's (the first
\* field of that name), and otherwise exactly one call is made, with the
\* target field's name and the source field's value.
C1_UpdateIffDifferent ==
    [][(/\ pc = "applyMapping"
        /\ mappings[mi].SourceField \in FieldNames(sourceValues[issues[k]]))
        => LET mapping == mappings[mi]
               sourceField == FirstFieldNamed(sourceValues[issues[k]], mapping.SourceField)
           IN  IF /\ mapping.TargetField \in DOMAIN targetFieldMap
                  /\ fieldsEqual(targetFieldMap[mapping.TargetField], sourceField)
               THEN NewCalls = <<>>
               ELSE /\ Len(NewCalls) = 1
                    /\ NewCalls[1].op = "UpdateProjectField"
                    /\ NewCalls[1].field.Name = mapping.TargetField
                    /\ NewCalls[1].field.Value = sourceField.Value]_vars

\* C3: every UpdateProjectField call of a run carries the dryRun value the
\* Service was constructed with.
C3_DryRunForwarded == \A n \in UpdateCalls : calls[n].dryRun = dryRun

\* A dry-run Service has made an UpdateProjectField call.
C3_Witness == dryRun /\ \E n \in UpdateCalls : calls[n].dryRun

\* C4: when the run has ended, every issue at a later position of the working
\* set than one whose UpdateProjectField call failed has been processed after
\* that failure (its title looked up and its mappings applied).
C4_LaterIssuesProcessed ==
    pc = "done" =>
        \A n \in UpdateCalls :
            ~calls[n].ok =>
                \A q \in (calls[n].pos + 1)..Len(issues) :
                    \E l \in (n + 1)..Len(calls) :
                        calls[l].op = "GetIssueTitle" /\ calls[l].pos = q

\* The run met no failure other than recoverable per-issue ones: its inputs
\* parsed, a working set was found, and no call other than an
\* UpdateProjectField or a GetIssueTitle call failed.
OnlyRecoverableFailures ==
    /\ ParseProjectURL(sourceProjectURL).ok
    /\ ParseProjectURL(targetProjectURL).ok
    /\ ParseFieldMappings(fieldMappings).ok
    /\ err # ErrNoCommonIssues
    /\ \A n \in 1..Len(calls) :
          ~calls[n].ok => calls[n].op \in {"UpdateProjectField", "GetIssueTitle"}

\* C5: a run whose only failures are recoverable per-issue ones returns no
\* error.
C5_RecoverableRunSucceeds ==
    (pc = "done" /\ OnlyRecoverableFailures) => err = NoError

\* C6: applying a mapping whose source field is not among the issue's source
\* values makes no call and raises no error, and the run goes on with the
\* issue's next mapping, else with the next issue, else ends without error.
C6_MissingSourceFieldSkipped ==
    [][(/\ pc = "applyMapping"
        /\ mappings[mi].SourceField \notin FieldNames(sourceValues[issues[k]]))
        => /\ calls' = calls
           /\ err' = NoError
           /\ IF mi < Len(mappings)
              THEN pc' = "applyMapping" /\ mi' = mi + 1 /\ k' = k
              ELSE IF k < Len(issues)
              THEN pc' \in {"getIssueTitle", "fetchSource"} /\ k' = k + 1
              ELSE pc' = "done"]_vars

\* The first mapping was skipped for an issue that lacks its source field, and
\* the second mapping is about to be applied to the same issue.
C6_Witness ==
    /\ pc = "applyMapping"
    /\ mi = 2
    /\ mappings[1].SourceField \notin FieldNames(sourceValues[issues[k]])
    /\ mappings[2].SourceField \in FieldNames(sourceValues[issues[k]])
    /\ \A n \in UpdateCalls : calls[n].pos # k

\* C7: findCommonIssues returns no URL more than once.
C7_NoDuplicates ==
    (Len(fnResult) = 2 /\ fnResult[1] = "returned") =>
        \A u \in IssueURLs : Count(fnResult[2], u) <= 1

\* C8: the result of findCommonIssues is a sub-sequence of the source list, it
\* holds a URL iff both lists hold it, its URLs stand in the order of their
\* first occurrences in the source list, and a target list of the same URLs
\* in any order gives the same result.
C8_OrderedIntersection ==
    (Len(fnResult) = 2 /\ fnResult[1] = "returned") =>
        LET source == fnArgs[1]
            target == fnArgs[2]
            result == fnResult[2]
        IN  /\ IsSubsequence(result, source)
            /\ \A u \in IssueURLs :
                  u \in Range(result) <=> (u \in Range(source) /\ u \in Range(target))
            /\ \A u \in Range(result), v \in Range(result) :
                  FirstIndex(result, u) < FirstIndex(result, v)
                      <=> FirstIndex(source, u) < FirstIndex(source, v)
            /\ \A other \in SeqsUpTo(IssueURLs, MaxTargetIssues) :
                  Range(other) = Range(target)
                      => findCommonIssues(source, other) = result

\* Two common URLs that the target list holds in the opposite order.
C8_Witness ==
    /\ fnArgs = <<<<"u1", "u2", "u3">>, <<"u3", "u1">>>>
    /\ fnResult = <<"returned", <<"u1", "u3">>>>

\* C9: with an empty explicit list and membership lists without a common
\* URL, the issue selection ends the run with an error, and no
\* GetProjectFieldValues, GetIssueTitle or UpdateProjectField call is made.
C9_NoCommonIssuesFails ==
    [][(/\ pc = "determineIssues"
        /\ issuesArg = <<>>
        /\ Range(sourceIssues) \cap Range(targetIssues) = {})
        => /\ pc' = "done"
           /\ err' = ErrNoCommonIssues
           /\ calls' = calls
           /\ PerIssueCalls = {}]_vars

\* A run with an empty explicit list has ended with the error.
C9_Witness ==
    /\ pc = "done"
    /\ issuesArg = <<>>
    /\ err = ErrNoCommonIssues
    /\ Len(calls) = 3

\* C10: a non-empty explicit list is the working set as given, never fails
\* the issue selection, and every per-issue call is for the list's element at
\* the call's position.
C10_ExplicitListVerbatim ==
    issuesArg # <<>> =>
        /\ pc \in {"processBatches", "fetchSource", "fetchTarget", "getIssueTitle",
                   "applyMapping"} => issues = issuesArg
        /\ err # ErrNoCommonIssues
        /\ \A n \in PerIssueCalls :
              /\ calls[n].pos \in 1..Len(issuesArg)
              /\ calls[n].issue = issuesArg[calls[n].pos]

\* An explicit list with a duplicate, of a URL in neither membership list, has
\* become the working set.
C10_Witness ==
    /\ pc = "processBatches"
    /\ issuesArg = <<"u1", "u1">>
    /\ issues = issuesArg
    /\ "u1" \notin Range(sourceIssues) \cup Range(targetIssues)

\* The step is a dry-run call of UpdateProjectField (every call records
\* itself in lastCall).
DryRunUpdate == lastCall'.op = "UpdateProjectField" /\ lastCall'.dryRun

\* C2: a dry-run call of UpdateProjectField sends no mutation, leaves GitHub's
\* projects and the cache as they were, and GetProjectFieldValues returns the
\* same for every project and issue after the call as before it.
C2_DryRunChangesNothing ==
    [][DryRunUpdate
        => /\ lastCall'.outcome \notin {"updated", "mutation failed"}
           /\ remote' = remote
           /\ cache' = cache
           /\ \A projectID \in ProjectIDs, issueURL \in ClientIssueURLs :
                 GetProjectFieldValues(cache', remote', projectID, issueURL)
                     = GetProjectFieldValues(cache, remote, projectID, issueURL)]_vars

\* A dry-run call on a cached project has got as far as the update it would
\* have made.
C2_Witness ==
    /\ lastCall = ClientCall("UpdateProjectField", TRUE, "dry run")
    /\ cache.targetProject # NilProject

\* text is core with white space added in front and behind, and core neither
\* starts nor ends with white space.
IsTrimmed(core, text) ==
    /\ core = <<>> \/ (core[1] # " " /\ core[Len(core)] # " ")
    /\ \E l \in 0..Len(text) :
          /\ l + Len(core) <= Len(text)
          /\ \A n \in 1..Len(text) :
                IF n > l /\ n <= l + Len(core) THEN text[n] = core[n - l]
                ELSE text[n] = " "

\* text is before, one "=", and after, and neither holds another "=".
IsSplitAtEquals(text, before, after) ==
    /\ text = before \o <<"=">> \o after
    /\ Count(before, "=") = 0
    /\ Count(after, "=") = 0

DigitChar(d) ==
    CASE d = 0 -> "0" [] d = 1 -> "1" [] d = 2 -> "2" [] d = 3 -> "3" [] d = 4 -> "4"
      [] d = 5 -> "5" [] d = 6 -> "6" [] d = 7 -> "7" [] d = 8 -> "8" [] d = 9 -> "9"

\* The decimal digits of a natural number, as a URL is written with.
RECURSIVE Decimal(_)
Decimal(n) ==
    IF n < 10 THEN <<DigitChar(n)>> ELSE Decimal(n \div 10) \o <<DigitChar(n % 10)>>

\* After url.Parse: https://github.com/{token}/{login}/projects/{n}.
ProjectURLFor(token, login, n) ==
    [Host |-> "github.com",
     Path |-> <<"/">> \o token \o <<"/">> \o login \o <<"/">> \o ProjectsToken
                 \o <<"/">> \o Decimal(n)]

\* C12: the URL written for an owner token, a login and a positive project
\* number parses to that owner type (orgs: Org, users: User), login and number.
C12_URLRoundTrip ==
    (Len(fnResult) = 2 /\ fnResult[1] = "returned") =>
        \A token \in {OrgsToken, UsersToken}, login \in {<<"m">>, <<"1">>},
           n \in 1..MaxProjectNumber :
            fnArgs[1] = ProjectURLFor(token, login, n) =>
                /\ fnResult[2].ok
                /\ fnResult[2].info = [OwnerType |-> IF token = OrgsToken THEN "org" ELSE "user",
                                       OwnerLogin |-> login,
                                       ProjectNumber |-> n]

\* A user project's URL with a number of two digits was parsed.
C12_Witness ==
    /\ fnArgs = <<ProjectURLFor(UsersToken, <<"m">>, 12)>>
    /\ fnResult = <<"returned",
                    [ok |-> TRUE, err |-> "",
                     info |-> [OwnerType |-> "user", OwnerLogin |-> <<"m">>,
                               ProjectNumber |-> 12]]>>

\* An optional sign followed by at least one decimal digit.
IsInteger(s) ==
    LET digits == IF s # <<>> /\ s[1] \in {"+", "-"} THEN Tail(s) ELSE s
    IN  digits # <<>> /\ \A n \in 1..Len(digits) : digits[n] \in Digits

\* The first class of invalid input a URL falls into, in the order of the
\* checks ("" for a valid URL).
InvalidClass(u) ==
    LET segments == Split(Trim(u.Path, "/"), "/")
    IN  IF u.Host # "github.com" THEN "not a GitHub URL"
        ELSE IF Len(segments) # 4 THEN "invalid project URL format"
        ELSE IF segments[1] \notin {OrgsToken, UsersToken} THEN "invalid owner type in URL"
        ELSE IF segments[3] # ProjectsToken THEN "expected 'projects' as third component"
        ELSE IF ~IsInteger(segments[4]) THEN "invalid project number"
        ELSE ""

C14_PositiveNumberOnly ==
    (Len(fnResult) = 2 /\ fnResult[1] = "returned" /\ fnResult[2].ok) =>
        fnResult[2].info.ProjectNumber > 0

SetupOps == {"GetProjectID", "GetProjectFieldConfigsAndIssues"}

\* C15: a failed GetProjectID or GetProjectFieldConfigsAndIssues call ends the
\* run with an error: it is the last call of the run, and no
\* GetProjectFieldValues or UpdateProjectField call is made; when the source
\* project's GetProjectID fails, it is the only call of the run.
C15_SetupFailuresFatal ==
    /\ \A n \in 1..Len(calls) :
          (calls[n].op \in SetupOps /\ ~calls[n].ok) =>
              /\ pc = "done"
              /\ err \in {ErrSourceID, ErrTargetID, ErrConfigs}
              /\ n = Len(calls)
              /\ \A l \in 1..Len(calls) :
                    calls[l].op \notin {"GetProjectFieldValues", "UpdateProjectField"}
    /\ err = ErrSourceID => (Len(calls) = 1 /\ calls[1].op = "GetProjectID")
    /\ err = ErrTargetID => (Len(calls) = 2 /\ calls[2].op = "GetProjectID")
    /\ err = ErrConfigs =>
          (Len(calls) = 3 /\ calls[3].op = "GetProjectFieldConfigsAndIssues")

\* The source project's identity could not be resolved and the run has ended.
C15_Witness ==
    /\ pc = "done"
    /\ err = ErrSourceID
    /\ Len(calls) = 1
    /\ ~calls[1].ok

\* C16: when GetProjectFieldConfigsAndIssues returns without an error, the
\* returned sourceIssues and targetIssues hold every Issue item of their
\* project exactly once, in order, and the cached item lists are the
\* projects' item lists, whatever the numbers of pages of the two projects.
C16_AllItemsExactlyOnce ==
    (loadPc = "returned" /\ loadResult.ok) =>
        /\ loadResult.sourceIssues = IssueURLsOf(remote[loadArgs[1]].Items)
        /\ loadResult.targetIssues = IssueURLsOf(remote[loadArgs[2]].Items)
        /\ cache.sourceProject.Items = remote[loadArgs[1]].Items
        /\ cache.targetProject.Items = remote[loadArgs[2]].Items

\* C19: an UpdateProjectField call made for a mapping and an issue carries the
\* value of the first source field of the mapping's source name, and is made
\* only if that first field differs from the target's current value; a later
\* source field of the same name never causes a call.
C19_FirstMatchOnly ==
    [][(pc = "applyMapping" /\ NewCalls # <<>>)
        => LET mapping == mappings[mi]
               first == FirstFieldNamed(sourceValues[issues[k]], mapping.SourceField)
           IN  /\ NewCalls[1].field.Value = first.Value
               /\ ~(/\ mapping.TargetField \in DOMAIN targetFieldMap
                    /\ fieldsEqual(targetFieldMap[mapping.TargetField], first))]_vars

\* C20: the UpdateProjectField calls of a run are in the order of (position of
\* the issue in the working set, position of the mapping in the input list):
\* of two calls, the later one is for a later issue, or for the same issue
\* and no earlier mapping.
C20_UpdatesInOrder ==
    \A n \in UpdateCalls : \A l \in UpdateCalls :
        n < l => \/ calls[n].pos < calls[l].pos
                 \/ calls[n].pos = calls[l].pos /\ calls[n].mi <= calls[l].mi

\* A run has updated an issue for two mappings and then a later issue.
C20_Witness ==
    \E n \in UpdateCalls : \E l \in UpdateCalls : \E q \in UpdateCalls :
        /\ n < l /\ l < q
        /\ calls[n].pos = calls[l].pos /\ calls[n].mi < calls[l].mi
        /\ calls[l].pos < calls[q].pos

\* C17: a second SyncFields run with the same arguments over a repository
\* that reflects the updates, after a first run that was no dry run and in
\* which every update succeeded, makes no UpdateProjectField call (every
\* source value of the repository is a populated date).
C17_SecondRunMakesNoUpdate ==
    run = 2 => \A n \in UpdateCalls : n <= runStart

\* The mappings of the run, as parseInputs reads them.
RunMappings == ParseFieldMappings(fieldMappings).mappings

\* C18: when two mappings name the same target field, then after a run that
\* was no dry run and returned no error the repository's value of that field,
\* for every issue of the working set that has the later mapping's source
\* field, is the value of that source field, whatever the target held before.
C18_LastMappingWins ==
    (/\ run = 1
     /\ pc = "done"
     /\ err = NoError
     /\ Len(RunMappings) = 2
     /\ RunMappings[1].TargetField = RunMappings[2].TargetField)
        => \A p \in 1..Len(issues) :
              LET source == repoSource[issues[p]]
                  target == repoTarget[issues[p]]
                  later == RunMappings[2]
              IN  later.SourceField \in FieldNames(source)
                     => /\ later.TargetField \in FieldNames(target)
                        /\ FirstFieldNamed(target, later.TargetField).Value
                               = FirstFieldNamed(source, later.SourceField).Value

\* The tag of a value: "Date", "Text" or "absent".
TagOf(value) ==
    IF value.Date # Nil THEN "Date" ELSE IF value.Text # Nil THEN "Text" ELSE "absent"

\* C23: fieldsEqual returns true iff both values are dates and the dates are
\* equal, or both are texts and the texts are equal; a date against a text,
\* an absent value against a populated one and two absent values are unequal.
C23_FieldsEqualRule ==
    fnResult[1] = "returned" =>
        LET a == fnArgs[1].Value
            b == fnArgs[2].Value
        IN  fnResult[2] = \/ TagOf(a) = "Date" /\ TagOf(b) = "Date" /\ a.Date = b.Date
                          \/ TagOf(a) = "Text" /\ TagOf(b) = "Text" /\ a.Text = b.Text

\* fieldsEqual has returned false for two unset values.
C23_Witness ==
    /\ fnResult = <<"returned", FALSE>>
    /\ fnArgs[1].Value = UnsetValue
    /\ fnArgs[2].Value = UnsetValue

\* The batch a list position belongs to: positions 1..10 form batch 1,
\* 11..20 batch 2, and so on.
BatchOf(p) == (p - 1) \div batchSize + 1

\* The positions in the log of the GetProjectFieldValues calls made for list
\* position p on a project.
FetchCalls(p, project) ==
    {n \in 1..Len(calls) : /\ calls[n].op = "GetProjectFieldValues"
                           /\ calls[n].pos = p
                           /\ calls[n].project = project}

\* C21: the working set is processed in consecutive batches of batchSize
\* issues, the last one possibly shorter: the batch in progress starts right
\* after a multiple of batchSize and holds batchSize positions unless it is
\* the last; no call for a position of a later batch precedes a call for a
\* position of an earlier batch; and when a run ends without error every list
\* position has had exactly one GetProjectFieldValues call on the source
\* project and one on the target project, the source's first, which makes
\* ceil(n/10) batches for n issues.
C21_BatchesPartition ==
    /\ pc \in {"fetchSource", "fetchTarget", "getIssueTitle", "applyMapping"} =>
          /\ (i - 1) % batchSize = 0
          /\ i <= k /\ k <= BatchEnd(i)
          /\ BatchEnd(i) <= Len(issues)
          /\ BatchEnd(i) - i + 1 = batchSize \/ BatchEnd(i) = Len(issues)
          /\ BatchOf(i) = BatchOf(BatchEnd(i))
    /\ \A n \in PerIssueCalls : \A l \in PerIssueCalls :
          n < l => BatchOf(calls[n].pos) <= BatchOf(calls[l].pos)
    /\ (pc = "done" /\ err = NoError) =>
          \A p \in 1..Len(issues) :
              /\ Cardinality(FetchCalls(p, "project_1")) = 1
              /\ Cardinality(FetchCalls(p, "project_2")) = 1
              /\ \A n \in FetchCalls(p, "project_1") : \A l \in FetchCalls(p, "project_2") :
                    n < l

\* A run over twenty-one issues, three batches, has ended without error.
C21_Witness ==
    /\ pc = "done"
    /\ err = NoError
    /\ Len(issues) = 2 * batchSize + 1
    /\ \E n \in PerIssueCalls : BatchOf(calls[n].pos) = 3

\* C24: the step that looks up an issue's title never fails the run, whatever
\* the lookup returns: with mappings to apply it goes on to the first mapping
\* of the same issue, with the lookup table built from the issue's fetched
\* target values and, after a failed lookup, the placeholder title; without
\* mappings it goes on to the next issue, the next batch or the normal end.
\* What follows the lookup is the same for both outcomes.
C24_TitleFailureNonFatal ==
    [][pc = "getIssueTitle" =>
          /\ err' = NoError
          /\ Len(NewCalls) = 1 /\ NewCalls[1].op = "GetIssueTitle"
          /\ IF mappings # <<>>
             THEN /\ pc' = "applyMapping"
                  /\ k' = k /\ mi' = 1 /\ i' = i
                  /\ targetFieldMap' = BuildTargetFieldMap(targetValues[issues[k]])
                  /\ sourceValues' = sourceValues /\ targetValues' = targetValues
                  /\ mappings' = mappings /\ issues' = issues
                  /\ title' = IF NewCalls[1].ok THEN "title" ELSE "<unknown>"
             ELSE IF k < BatchEnd(i)
             THEN pc' = "getIssueTitle" /\ k' = k + 1
             ELSE IF i + batchSize <= Len(issues)
             THEN pc' = "fetchSource" /\ k' = i + batchSize
             ELSE pc' = "done"]_vars

\* After a failed title lookup the issue has been updated and the following
\* issue has been processed.
C24_Witness ==
    \E n \in 1..Len(calls) : \E l \in UpdateCalls : \E q \in PerIssueCalls :
        /\ calls[n].op = "GetIssueTitle" /\ ~calls[n].ok
        /\ n < l /\ calls[l].pos = calls[n].pos
        /\ l < q /\ calls[q].pos > calls[n].pos /\ calls[q].op = "GetIssueTitle"

\* C26: every UpdateProjectField call of a run is addressed to the identity
\* the target project URL resolves to and not to the source project's, and no
\* step of a run changes the field values the source project holds.
C26_OnlyTargetWritten ==
    [][/\ \A n \in 1..Len(NewCalls) :
              NewCalls[n].op = "UpdateProjectField" =>
                  /\ NewCalls[n].project = ProjectIDFor(ParseProjectURL(targetProjectURL).info)
                  /\ NewCalls[n].project # ProjectIDFor(ParseProjectURL(sourceProjectURL).info)
       /\ repoSource' = repoSource]_vars

\* A run has made a successful update that is no dry run, and the target
\* project holds the value sent.
C26_Witness ==
    \E n \in UpdateCalls :
        /\ calls[n].ok /\ ~calls[n].dryRun
        /\ calls[n].project = "project_2"
        /\ \E q \in 1..Len(repoTarget[calls[n].issue]) :
              /\ repoTarget[calls[n].issue][q].Name = calls[n].field.Name
              /\ repoTarget[calls[n].issue][q].Value = calls[n].field.Value

\* The GetProjectFieldValues calls that failed.
FailedFetches ==
    {n \in 1..Len(calls) : calls[n].op = "GetProjectFieldValues" /\ ~calls[n].ok}

\* C27: a failed GetProjectFieldValues call is the last call of the run, which
\* has returned the fetch error; no UpdateProjectField call has been made for
\* an issue of the failing batch or of a later batch; and the successful
\* updates of earlier batches are still what the target project holds.
C27_FetchFailureAbortsBatch ==
    \A n \in FailedFetches :
        /\ n = Len(calls)
        /\ pc = "done"
        /\ err \in {ErrSourceValues, ErrTargetValues}
        /\ \A l \in UpdateCalls : BatchOf(calls[l].pos) < BatchOf(calls[n].pos)
        /\ \A l \in UpdateCalls :
              (calls[l].ok /\ ~calls[l].dryRun) =>
                  \E q \in 1..Len(repoTarget[calls[l].issue]) :
                      /\ repoTarget[calls[l].issue][q].Name = calls[l].field.Name
                      /\ repoTarget[calls[l].issue][q].Value = calls[l].field.Value

\* A fetch of the second batch has failed after an update of the first batch
\* was applied.
C27_Witness ==
    \E n \in FailedFetches : \E l \in UpdateCalls :
        /\ BatchOf(calls[n].pos) = 2
        /\ BatchOf(calls[l].pos) = 1
        /\ calls[l].ok /\ ~calls[l].dryRun

\* The project GetProjectFieldValues reads: the cached one when its ID
\* matches, GitHub's otherwise.
ProjectRead(projectID) ==
    IF getProjectFromCache(cache, projectID) # NilProject
    THEN getProjectFromCache(cache, projectID)
    ELSE remote[projectID]

\* The date and single-select nodes among the value nodes.
HandledNodes(nodes) ==
    SelectSeq(nodes, LAMBDA node : node.TypeName \in {DateValueType, SingleSelectValueType})

CanEnd(projectID, issueURL, field, dr, outcomes) ==
    ENABLED (UpdateProjectField(projectID, issueURL, field, dr)
                /\ lastCall'.outcome \in outcomes)

\* The outcomes with which UpdateProjectField returns nil, those with which it
\* returns an error, and of these the ones where a request to GitHub failed.
SuccessOutcomes == {"equal", "dry run", "updated"}
ErrorOutcomes ==
    {"query failed", "issue not found", "field not found", "no mutation input",
     "mutation failed"}
RequestFailures == {"query failed", "mutation failed"}

\* C29: for every cache state, project, issue and field, if the dry-run call
\* of UpdateProjectField can return success, the same call that is no dry run
\* returns an error only because a request to GitHub fails, never because of
\* the value (its kind, its absence, or a missing single-select option).
C29_DryRunPredictsValidation ==
    \A projectID \in ProjectIDs, issueURL \in ClientIssueURLs, field \in UpdateFields :
        CanEnd(projectID, issueURL, field, TRUE, SuccessOutcomes)
            => ~CanEnd(projectID, issueURL, field, FALSE, ErrorOutcomes \ RequestFailures)

\* The configured kind of the field in GitHub's project does not match the
\* value's tag: a text for a date field, or a date for a single-select field.
KindMismatch(projectID, field) ==
    LET config == findProjectField(remote[projectID], field.Name)
    IN  /\ config.ok
        /\ \/ config.isDateField /\ field.Value.Text # Nil
           \/ ~config.isDateField /\ field.Value.Date # Nil

\* C22: an UpdateProjectField call whose value's tag does not match the
\* configured kind of the target field cannot return success and cannot send
\* a mutation: whatever else happens, it returns an error.
C22_KindMismatchFails ==
    \A projectID \in ProjectIDs, issueURL \in ClientIssueURLs, field \in UpdateFields,
       dr \in BOOLEAN :
        KindMismatch(projectID, field)
            => ~CanEnd(projectID, issueURL, field, dr, SuccessOutcomes \cup {"mutation failed"})

\* A further identical UpdateProjectField call on the client state would find
\* the current value equal and return without a mutation
\* (graphql_client.go:841-849).
WouldSkip(c, r, projectID, issueURL, field) ==
    LET cached == getProjectFromCache(c, projectID)
        project == IF cached # NilProject THEN cached ELSE r[projectID]
    IN  valuesEqual(findProjectItem(project, issueURL, field.Name).currentValue, field)

\* C28: after an UpdateProjectField call that is no dry run has sent its
\* mutation and returned success, GetProjectFieldValues on the same client
\* for that project and issue returns a field of that name with the new
\* value, and the same call made again sends no mutation; also when the issue
\* had no value node of the field before.
C28_ReadYourWrites ==
    [][(lastCall'.op = "UpdateProjectField" /\ lastCall'.outcome = "updated") =>
          \A projectID \in ProjectIDs, issueURL \in ClientIssueURLs, field \in UpdateFields :
              UpdateProjectField(projectID, issueURL, field, FALSE) =>
                  LET result == GetProjectFieldValues(cache', remote', projectID, issueURL)
                  IN  /\ result.ok
                      /\ \E n \in 1..Len(result.fields) :
                            /\ result.fields[n].Name = field.Name
                            /\ result.fields[n].Value = field.Value
                      /\ WouldSkip(cache', remote', projectID, issueURL, field)]_vars

\* The project an UpdateProjectField call works on.
ProjectUpdated(projectID) ==
    IF getProjectFromCache(cache, projectID) # NilProject
    THEN getProjectFromCache(cache, projectID)
    ELSE remote[projectID]

\* The field is a single-select field of the project and the value a text.
SingleSelectUpdate(projectID, field) ==
    LET config == findProjectField(ProjectUpdated(projectID), field.Name)
    IN  config.ok /\ ~config.isDateField /\ field.Value.Text # Nil

\* The project is the cached target project.
IsCachedTarget(projectID) ==
    cache.targetProject # NilProject /\ cache.targetProject.ID = projectID

\* The single-select fields with a text among the fields of the calls.
TextFields == {field \in UpdateFields : field.Value.Text # Nil}

\* What C30 says of one call with the arguments, made in the step.
OptionResolvedInTarget(projectID, issueURL, field) ==
    /\ lastCall'.outcome \in {"updated", "mutation failed"} =>
          /\ lastCall'.input.Value.Text # ""
          /\ lastCall'.input.Value.Text
                = OptionID(cache.targetProject, field.Name, field.Value.Text)
    /\ (\/ ~IsCachedTarget(projectID)
        \/ OptionID(cache.targetProject, field.Name, field.Value.Text) = "") =>
          /\ lastCall'.outcome \in ErrorOutcomes \ {"mutation failed"}
          /\ cache' = cache
          /\ remote' = remote

====
